---------------------------- MODULE Spec2Model ----------------------------
(***************************************************************************)
(* A model of the heap-groomer analysis core:                              *)
(*   - PartitionAllocAnalyzer (src/src/allocator/partition_alloc.py): the  *)
(*     event ledger, its bucket table, the reuse matcher and the           *)
(*     export / load snapshot;                                             *)
(*   - AllocatorAnalyzer (src/src/allocator/analyzer.py) and the batch     *)
(*     ingestion of HeapGroomer.analyze_allocator (src/src/main.py);       *)
(*   - FreelistAnalyzer (src/src/analysis/freelist_analyzer.py): the       *)
(*     object registry, classify_object and the overwrite-chain builder;   *)
(*   - BugAnalyzer (src/src/bug_mode/analyzer.py): the target registry,    *)
(*     the exploitability score in Python floats and analyze_bug;          *)
(*   - StrategyGenerator (src/src/strategy/generator.py): the allocation   *)
(*     steps and the trigger of a strategy.                                *)
(* Python lists are sequences, Python dicts are sequences of key/value     *)
(* records in insertion order, Python None is the value None.              *)
(***************************************************************************)
EXTENDS Integers, Sequences, FiniteSets, TLC

VARIABLES
    events,             \* PartitionAllocAnalyzer.events
    buckets,            \* PartitionAllocAnalyzer.buckets (dict, insertion order)
    raised,             \* the exception the last call raised, or "none"
    reuse_ret,          \* the value analyze_reuse_patterns last returned
    file,               \* the JSON document export_analysis wrote
    loaded,             \* the fresh analyzer load_analysis fills
    file2,              \* the JSON document the loaded analyzer exports
    fn_args,            \* the arguments of the pure functions under call
    fn_ret,             \* what each pure function returned for fn_args
    allocation_history, \* AllocatorAnalyzer.allocation_history
    slot_analysis,      \* AllocatorAnalyzer.slot_analysis (dict by size)
    batch,              \* the records json.load read from the events file
    batch_pos,          \* the record the loop of analyze_allocator is at
    ingest_pc,          \* where analyze_allocator is: idle, loading, done, aborted
    object_metadata,    \* FreelistAnalyzer.object_metadata (dict by name)
    chain_pc,           \* where _build_overwrite_chain is
    chain_target,       \* its argument target (the anchor)
    chain_overwrite,    \* its argument overwrite_size
    chain,              \* its local chain
    current_size,       \* its local current_size
    known_objects,      \* BugAnalyzer.known_objects (dict by name)
    bug_history,        \* BugAnalyzer.bug_history
    bug_analysis,       \* the dict analyze_bug last returned
    score_args,         \* the arguments of _calculate_exploitability_score under call
    score_ret,          \* what _calculate_exploitability_score returned for score_args
    gen_args,           \* the arguments of generate_strategy under call
    gen_ret,            \* the GroomingStrategy generate_strategy returned for gen_args
    patterns_ret,       \* the value detect_reuse_patterns last returned
    infer_ret,          \* the outcome of the last infer_bucket_boundaries call
    spray_ret           \* the argument and the value of the last get_spray_candidates call

ledgerVars == <<events, buckets, raised, reuse_ret>>
snapshotVars == <<file, loaded, file2>>
fnVars == <<fn_args, fn_ret>>
ingestVars == <<allocation_history, slot_analysis, batch, batch_pos, ingest_pc>>
chainVars == <<object_metadata, chain_pc, chain_target, chain_overwrite, chain, current_size>>
bugVars == <<known_objects, bug_history, bug_analysis>>
scoreVars == <<score_args, score_ret>>
strategyVars == <<gen_args, gen_ret>>
queryVars == <<patterns_ret, infer_ret, spray_ret>>
vars == <<ledgerVars, snapshotVars, fnVars, ingestVars, chainVars, bugVars, scoreVars, strategyVars,
          queryVars>>

-----------------------------------------------------------------------------
(* Bounds of the model. *)

MaxEvents == 3
MaxReuseEvents == 6
MaxSize == 132
MaxBatch == 3
MaxChain == 5
MaxHistory == 4

-----------------------------------------------------------------------------
(* Python values. *)

\* Python's None, the default of the Optional fields of AllocationEvent.
None == -1

\* json's null, what json.dump writes for None and json.load reads back as None.
JsonNull == -2

\* A call that was not made yet, and the value a call returned.
NotCalled == [called |-> FALSE]

Returned(v) == [called |-> TRUE, value |-> v]

RECURSIVE SeqContains(_, _)
\* Python's `x in list`.
SeqContains(s, x) ==
    IF s = <<>> THEN FALSE
    ELSE IF Head(s) = x THEN TRUE
    ELSE SeqContains(Tail(s), x)

RECURSIVE ListRemove(_, _)
\* Python's list.remove(x): drops the first occurrence of x.
ListRemove(s, x) ==
    IF s = <<>> THEN <<>>
    ELSE IF Head(s) = x THEN Tail(s)
    ELSE <<Head(s)>> \o ListRemove(Tail(s), x)

\* Python's `key in dict`.
DictHas(d, k) == \E i \in DOMAIN d : d[i].key = k

\* Python's dict[key].
DictGet(d, k) == d[CHOOSE i \in DOMAIN d : d[i].key = k].value

\* Python's dict[key] = value: a new key goes last, a known key keeps its place.
DictSet(d, k, v) ==
    IF DictHas(d, k)
    THEN [i \in DOMAIN d |-> IF d[i].key = k THEN [key |-> k, value |-> v] ELSE d[i]]
    ELSE Append(d, [key |-> k, value |-> v])

RECURSIVE BitAndNot(_, _)
\* Python's x & ~m for m >= 0: the bits of x that m does not have (x = -1 is
\* all ones, so -1 & ~m = ~m = -(m + 1)).
BitAndNot(x, m) ==
    IF x = 0 THEN 0
    ELSE IF x = -1 THEN -(m + 1)
    ELSE (IF x % 2 = 1 /\ m % 2 = 0 THEN 1 ELSE 0) + 2 * BitAndNot(x \div 2, m \div 2)

-----------------------------------------------------------------------------
(* PartitionAllocAnalyzer: alignment and slot size. *)

_infer_alignment(size) ==
    IF size <= 8 THEN 8
    ELSE IF size <= 16 THEN 16
    ELSE IF size <= 32 THEN 32
    ELSE 64

\* Faulty variant: the mask applied without adding alignment - 1 (rounds down).
_infer_slot_size_rounddown(size) ==
    LET alignment == _infer_alignment(size)
    IN  BitAndNot(size, alignment - 1)

_infer_slot_size(size) ==
    LET alignment == _infer_alignment(size)
    IN  BitAndNot(size + alignment - 1, alignment - 1)

-----------------------------------------------------------------------------
(* PartitionAllocAnalyzer: the ledger. *)

AllocationEvent(ts, ty, sz, addr, bi) ==
    [timestamp |-> ts, event_type |-> ty, size |-> sz, address |-> addr,
     bucket_index |-> bi, object_type |-> None]

BucketInfo(sz, al, ss, ns, fs, us) ==
    [size |-> sz, alignment |-> al, slot_size |-> ss, num_slots |-> ns,
     free_slots |-> fs, used_slots |-> us]

\* Faulty variant: the `alloc` branch without the removal from free_slots.
AllocSlot_keepfree(bucket, address) ==
    IF ~SeqContains(bucket.used_slots, address)
    THEN [bucket EXCEPT !.used_slots = Append(@, address)]
    ELSE bucket

\* _update_bucket_info, the `alloc` branch (lines 54-58).
AllocSlot(bucket, address) ==
    IF ~SeqContains(bucket.used_slots, address)
    THEN [bucket EXCEPT
            !.used_slots = Append(@, address),
            !.free_slots = IF SeqContains(@, address) THEN ListRemove(@, address) ELSE @]
    ELSE bucket

\* Faulty variant: the `free` branch without its membership test.
FreeSlot_unchecked(bucket, address) ==
    [bucket EXCEPT
        !.used_slots = IF SeqContains(@, address) THEN ListRemove(@, address) ELSE @,
        !.free_slots = Append(@, address)]

\* Faulty variant: the `free` branch without the removal from used_slots.
FreeSlot_keepused(bucket, address) ==
    IF SeqContains(bucket.used_slots, address)
    THEN [bucket EXCEPT !.free_slots = Append(@, address)]
    ELSE bucket

\* _update_bucket_info, the `else` (free) branch (lines 59-62).
FreeSlot(bucket, address) ==
    IF SeqContains(bucket.used_slots, address)
    THEN [bucket EXCEPT
            !.used_slots = ListRemove(@, address),
            !.free_slots = Append(@, address)]
    ELSE bucket

\* Faulty variant: every event sets the size, alignment and slot size of its
\* bucket anew.
_update_bucket_info_resize(bs, event) ==
    IF event.bucket_index = None THEN bs
    ELSE
        LET created ==
                IF ~DictHas(bs, event.bucket_index)
                THEN DictSet(bs, event.bucket_index,
                             BucketInfo(event.size, _infer_alignment(event.size),
                                        _infer_slot_size(event.size), 0, <<>>, <<>>))
                ELSE bs
            bucket == [DictGet(created, event.bucket_index) EXCEPT
                          !.size = event.size,
                          !.alignment = _infer_alignment(event.size),
                          !.slot_size = _infer_slot_size(event.size)]
        IN  IF event.event_type = "alloc"
            THEN DictSet(created, event.bucket_index, AllocSlot(bucket, event.address))
            ELSE DictSet(created, event.bucket_index, FreeSlot(bucket, event.address))

\* Faulty variant: an event without a bucket index is filed under the key None.
_update_bucket_info_nonekey(bs, event) ==
    LET created ==
            IF ~DictHas(bs, event.bucket_index)
            THEN DictSet(bs, event.bucket_index,
                         BucketInfo(event.size, _infer_alignment(event.size),
                                    _infer_slot_size(event.size), 0, <<>>, <<>>))
            ELSE bs
        bucket == DictGet(created, event.bucket_index)
    IN  IF event.event_type = "alloc"
        THEN DictSet(created, event.bucket_index, AllocSlot(bucket, event.address))
        ELSE DictSet(created, event.bucket_index, FreeSlot(bucket, event.address))

\* The bucket table after _update_bucket_info(event) on the table bs.
_update_bucket_info(bs, event) ==
    IF event.bucket_index = None THEN bs
    ELSE
        LET created ==
                IF ~DictHas(bs, event.bucket_index)
                THEN DictSet(bs, event.bucket_index,
                             BucketInfo(event.size, _infer_alignment(event.size),
                                        _infer_slot_size(event.size), 0, <<>>, <<>>))
                ELSE bs
            bucket == DictGet(created, event.bucket_index)
        IN  IF event.event_type = "alloc"
            THEN DictSet(created, event.bucket_index, AllocSlot(bucket, event.address))
            ELSE DictSet(created, event.bucket_index, FreeSlot(bucket, event.address))

\* add_event never validates and never raises: it appends and updates.
add_event(event) ==
    /\ events' = Append(events, event)
    /\ buckets' = _update_bucket_info(buckets, event)
    /\ raised' = "none"
    /\ reuse_ret' = NotCalled
    /\ UNCHANGED <<snapshotVars, fnVars, ingestVars, chainVars, bugVars, scoreVars, strategyVars, queryVars>>

-----------------------------------------------------------------------------
(* PartitionAllocAnalyzer: the reuse matcher and the bucket boundaries. *)

\* Faulty variant: the scan starts at the head of the log, not after the free.
ScanStart_fromhead(i) ==
    1

\* The first index the inner loop visits: range(i + 1, len(self.events)).
ScanStart(i) ==
    i + 1

RECURSIVE FirstLaterAlloc_sameslot(_, _, _)
\* Faulty variant: the allocation must also have the size and the bucket index
\* of the free event.
FirstLaterAlloc_sameslot(evs, i, j) ==
    IF j > Len(evs) THEN 0
    ELSE IF /\ evs[j].event_type = "alloc" /\ evs[j].address = evs[i].address
            /\ evs[j].size = evs[i].size /\ evs[j].bucket_index = evs[i].bucket_index
         THEN j
    ELSE FirstLaterAlloc_sameslot(evs, i, j + 1)

RECURSIVE FirstLaterAlloc(_, _, _)
\* The inner loop: the first j at or after `j` holding an alloc of the address
\* of event i, or 0 when the loop ends without a break.
FirstLaterAlloc(evs, i, j) ==
    IF j > Len(evs) THEN 0
    ELSE IF evs[j].event_type = "alloc" /\ evs[j].address = evs[i].address THEN j
    ELSE FirstLaterAlloc(evs, i, j + 1)

RECURSIVE ReuseFrom(_, _, _)
\* The outer loop from event i on; pairs are the 0-based indices of enumerate.
ReuseFrom(evs, i, patterns) ==
    IF i > Len(evs) THEN patterns
    ELSE
        LET j == FirstLaterAlloc(evs, i, ScanStart(i))
            old == IF DictHas(patterns, evs[i].size)
                   THEN DictGet(patterns, evs[i].size) ELSE <<>>
        IN  IF evs[i].event_type = "free" /\ j # 0
            THEN ReuseFrom(evs, i + 1,
                           DictSet(patterns, evs[i].size, Append(old, <<i - 1, j - 1>>)))
            ELSE ReuseFrom(evs, i + 1, patterns)

analyze_reuse_patterns(evs) ==
    ReuseFrom(evs, 1, <<>>)

RECURSIVE SortedItems(_)
\* sorted(self.buckets.items()): by key, the keys of a dict being distinct.
SortedItems(d) ==
    IF d = <<>> THEN <<>>
    ELSE
        LET m == CHOOSE i \in DOMAIN d : \A k \in DOMAIN d : d[i].key <= d[k].key
        IN  <<d[m]>> \o SortedItems(SubSeq(d, 1, m - 1) \o SubSeq(d, m + 1, Len(d)))

get_bucket_boundaries(bs) ==
    LET sorted_buckets == SortedItems(bs)
    IN  [i \in 1..(IF Len(sorted_buckets) = 0 THEN 0 ELSE Len(sorted_buckets) - 1) |->
            <<sorted_buckets[i].value.size, sorted_buckets[i + 1].value.size>>]

\* The action: a call of analyze_reuse_patterns on the current log.
AnalyzeReusePatterns ==
    /\ ~reuse_ret.called
    /\ reuse_ret' = Returned(analyze_reuse_patterns(events))
    /\ raised' = "none"
    /\ UNCHANGED <<events, buckets, snapshotVars, fnVars, ingestVars, chainVars, bugVars, scoreVars, strategyVars, queryVars>>

-----------------------------------------------------------------------------
(* PartitionAllocAnalyzer: export_analysis and load_analysis. *)

\* The bucket indexes and the other inputs the events of the model draw from.
BucketIndexes == {0, 1}

EventTypes == {"alloc", "free"}

\* json.dump of an Optional[int]: None is written as null.
JsonDump(x) == IF x = None THEN JsonNull ELSE x

\* json.load of an Optional[int]: null is read as None.
JsonLoad(x) == IF x = JsonNull THEN None ELSE x

\* int(k) of a bucket key written by str(k).
ParseInt(str) == CHOOSE k \in BucketIndexes : ToString(k) = str

\* json.dump of BucketInfo.dict().
DumpBucket(b) ==
    [size |-> b.size, alignment |-> b.alignment, slot_size |-> b.slot_size,
     num_slots |-> b.num_slots,
     free_slots |-> [i \in DOMAIN b.free_slots |-> JsonDump(b.free_slots[i])],
     used_slots |-> [i \in DOMAIN b.used_slots |-> JsonDump(b.used_slots[i])]]

\* json.dump of AllocationEvent.dict().
DumpEvent(e) ==
    [timestamp |-> e.timestamp, event_type |-> e.event_type, size |-> e.size,
     address |-> JsonDump(e.address), bucket_index |-> JsonDump(e.bucket_index),
     object_type |-> JsonDump(e.object_type)]

\* The document export_analysis writes for an analyzer holding (bs, evs):
\* dict keys become strings, tuples become lists.
ExportDocument(bs, evs) ==
    LET patterns == analyze_reuse_patterns(evs)
    IN  [buckets |-> [i \in DOMAIN bs |->
                        [key |-> ToString(bs[i].key), value |-> DumpBucket(bs[i].value)]],
         events |-> [i \in DOMAIN evs |-> DumpEvent(evs[i])],
         reuse_patterns |-> [i \in DOMAIN patterns |->
                        [key |-> ToString(patterns[i].key), value |-> patterns[i].value]],
         boundaries |-> get_bucket_boundaries(bs)]

\* pydantic's validation of BucketInfo(**v): the int fields and every element of
\* the List[int] fields must be integers, so a None element is rejected.
BucketInfoValid(v) ==
    /\ \A x \in {v.size, v.alignment, v.slot_size, v.num_slots} : JsonLoad(x) # None
    /\ \A i \in DOMAIN v.free_slots : JsonLoad(v.free_slots[i]) # None
    /\ \A i \in DOMAIN v.used_slots : JsonLoad(v.used_slots[i]) # None

\* pydantic's validation of AllocationEvent(**e): timestamp and size are required
\* numbers, the Optional fields accept None.
AllocationEventValid(e) ==
    /\ JsonLoad(e.timestamp) # None
    /\ JsonLoad(e.size) # None

LoadBucket(v) ==
    BucketInfo(v.size, v.alignment, v.slot_size, v.num_slots, v.free_slots, v.used_slots)

LoadEvent(e) ==
    [timestamp |-> e.timestamp, event_type |-> e.event_type, size |-> e.size,
     address |-> JsonLoad(e.address), bucket_index |-> JsonLoad(e.bucket_index),
     object_type |-> JsonLoad(e.object_type)]

\* A fresh PartitionAllocAnalyzer (__init__).
FreshAnalyzer == [events |-> <<>>, buckets |-> <<>>, status |-> "fresh"]

\* load_analysis(document) on the analyzer a: self.buckets is assigned first, then
\* self.events; a ValidationError leaves what was not yet assigned as it was.
LoadDocument(a, data) ==
    IF \E i \in DOMAIN data.buckets : ~BucketInfoValid(data.buckets[i].value)
    THEN [a EXCEPT !.status = "ValidationError"]
    ELSE
        LET bs == [i \in DOMAIN data.buckets |->
                     [key |-> ParseInt(data.buckets[i].key),
                      value |-> LoadBucket(data.buckets[i].value)]]
        IN  IF \E i \in DOMAIN data.events : ~AllocationEventValid(data.events[i])
            THEN [a EXCEPT !.buckets = bs, !.status = "ValidationError"]
            ELSE [events |-> [i \in DOMAIN data.events |-> LoadEvent(data.events[i])],
                  buckets |-> bs, status |-> "loaded"]

\* The action: the recording analyzer exports its state.
export_analysis ==
    /\ ~file.called
    /\ file' = Returned(ExportDocument(buckets, events))
    /\ UNCHANGED <<ledgerVars, loaded, file2, fnVars, ingestVars, chainVars, bugVars, scoreVars, strategyVars, queryVars>>

\* The action: a fresh analyzer loads the exported document.
load_analysis ==
    /\ file.called
    /\ loaded.status = "fresh"
    /\ loaded' = LoadDocument(loaded, file.value)
    /\ UNCHANGED <<ledgerVars, file, file2, fnVars, ingestVars, chainVars, bugVars, scoreVars, strategyVars, queryVars>>

\* The action: the analyzer that loaded the document exports again.
export_again ==
    /\ loaded.status # "fresh"
    /\ ~file2.called
    /\ file2' = Returned(ExportDocument(loaded.buckets, loaded.events))
    /\ UNCHANGED <<ledgerVars, file, loaded, fnVars, ingestVars, chainVars, bugVars, scoreVars, strategyVars, queryVars>>

-----------------------------------------------------------------------------
(* AllocatorAnalyzer and the batch ingestion of HeapGroomer.analyze_allocator. *)

RECURSIVE FirstDividing(_, _)
\* The loop `for alignment in [...]`: the first one that divides size, else 8.
FirstDividing(alignments, size) ==
    IF alignments = <<>> THEN 8
    ELSE IF size % Head(alignments) = 0 THEN Head(alignments)
    ELSE FirstDividing(Tail(alignments), size)

_detect_alignment(size) ==
    FirstDividing(<<8, 16, 32, 64>>, size)

\* A record of the events file as json.load returns it: a Python dict with the
\* keys it carries.
JsonRecord(keys, sz, addr) ==
    [py_type |-> "dict", keys |-> keys, size |-> sz, address |-> addr]

\* Attribute access `event.<name>`: instances of the AllocationEvent dataclass
\* have their fields as attributes, a dict has none of its keys as attributes.
HasAttr(event, name) ==
    event.py_type = "AllocationEvent"

SlotAnalysis(sz, al, cnt, fc, oc) ==
    [size |-> sz, alignment |-> al, count |-> cnt, free_chunks |-> fc,
     occupied_chunks |-> oc]

\* _update_slot_analysis(event) on the table sa, for an event with attributes.
_update_slot_analysis(sa, event) ==
    LET created ==
            IF ~DictHas(sa, event.size)
            THEN DictSet(sa, event.size,
                         SlotAnalysis(event.size, _detect_alignment(event.size), 0, <<>>, <<>>))
            ELSE sa
        analysis == DictGet(created, event.size)
    IN  DictSet(created, event.size,
                [analysis EXCEPT !.count = @ + 1,
                                 !.occupied_chunks = Append(@, event.address)])

\* record_allocation(event) on the analyzer (history, sa): the append happens
\* first; reading event.size of an object without that attribute raises
\* AttributeError out of _update_slot_analysis.
record_allocation(history, sa, event) ==
    IF HasAttr(event, "size")
    THEN [history |-> Append(history, event),
          slot_analysis |-> _update_slot_analysis(sa, event), raised |-> "none"]
    ELSE [history |-> Append(history, event),
          slot_analysis |-> sa, raised |-> "AttributeError"]

\* One turn of `for event in events:` in analyze_allocator. Nothing catches the
\* exception of record_allocation, so it ends the loop and the call.
IngestRecord ==
    /\ ingest_pc = "loading"
    /\ batch_pos <= Len(batch)
    /\ LET r == record_allocation(allocation_history, slot_analysis, batch[batch_pos])
       IN  /\ allocation_history' = r.history
           /\ slot_analysis' = r.slot_analysis
           /\ raised' = r.raised
           /\ ingest_pc' = IF r.raised = "none" THEN "loading" ELSE "aborted"
           /\ batch_pos' = IF r.raised = "none" THEN batch_pos + 1 ELSE batch_pos
    /\ UNCHANGED <<batch, events, buckets, reuse_ret, snapshotVars, fnVars, chainVars, bugVars, scoreVars, strategyVars, queryVars>>

\* The loop is over: analyze_allocator prints the statistics and returns.
IngestDone ==
    /\ ingest_pc = "loading"
    /\ batch_pos > Len(batch)
    /\ ingest_pc' = "done"
    /\ UNCHANGED <<allocation_history, slot_analysis, batch, batch_pos>>
    /\ UNCHANGED <<ledgerVars, snapshotVars, fnVars, chainVars, bugVars, scoreVars, strategyVars, queryVars>>

-----------------------------------------------------------------------------
(* FreelistAnalyzer: classification, the registry and the overwrite chain. *)

\* Faulty variant: the size tables are consulted before has_vtable.
classify_object_sizefirst(obj_type, size, has_vtable) ==
    IF size \in {32, 48, 64, 80, 96, 112, 128} THEN "dangerous"
    ELSE IF size \in {16, 24, 40, 56} THEN "harmless"
    ELSE IF has_vtable THEN "dangerous"
    ELSE "spray_candidate"

classify_object(obj_type, size, has_vtable) ==
    IF has_vtable THEN "dangerous"
    ELSE IF size \in {32, 48, 64, 80, 96, 112, 128} THEN "dangerous"
    ELSE IF size \in {16, 24, 40, 56} THEN "harmless"
    ELSE "spray_candidate"

ObjectMetadata(nm, sz, ct) ==
    [name |-> nm, size |-> sz, alignment |-> 8, class_type |-> ct,
     dangerous_fields |-> <<>>, vtable_offset |-> None, metadata_size |-> 0]

\* The action: register_object_type(metadata), insert or replace by name.
register_object_type(metadata) ==
    /\ chain_pc = "idle"
    /\ object_metadata' = DictSet(object_metadata, metadata.name, metadata)
    /\ UNCHANGED <<chain_pc, chain_target, chain_overwrite, chain, current_size>>
    /\ UNCHANGED <<ledgerVars, snapshotVars, fnVars, ingestVars, bugVars, scoreVars, strategyVars, queryVars>>

RECURSIVE FirstFitting(_, _, _)
\* The loop of _find_next_target over object_metadata.values(): the index of
\* the first non-harmless object that fits, or 0 for `return None`.
FirstFitting(objs, i, room) ==
    IF i > Len(objs) THEN 0
    ELSE IF objs[i].value.class_type # "harmless" /\ objs[i].value.size <= room THEN i
    ELSE FirstFitting(objs, i + 1, room)

\* Faulty variant: the next member only has to fit the budget on its own.
_find_next_target_alone(objs, cur, target_size) ==
    FirstFitting(objs, 1, target_size)

\* _find_next_target(current_size, target_size): current_size + obj.size <= target_size.
_find_next_target(objs, cur, target_size) ==
    FirstFitting(objs, 1, target_size - cur)

\* Faulty variant: the chain is returned whatever it adds up to.
ChainReturn_always(cur, overwrite_size) ==
    "returned_chain"

\* `return chain if current_size >= overwrite_size else None`.
ChainReturn(cur, overwrite_size) ==
    IF cur >= overwrite_size THEN "returned_chain" ELSE "returned_none"

\* The action: _build_overwrite_chain(target, overwrite_size) up to its loop, for
\* a target taken from the registry as analyze_overwrite_chain takes it.
BuildChainStart(target, overwrite_size) ==
    /\ chain_pc = "idle"
    /\ chain_target' = target
    /\ chain_overwrite' = overwrite_size
    /\ IF target.class_type = "harmless"
       THEN /\ chain_pc' = "returned_none"
            /\ UNCHANGED <<chain, current_size>>
       ELSE /\ chain_pc' = "loop"
            /\ chain' = <<target.name>>
            /\ current_size' = target.size
    /\ UNCHANGED object_metadata
    /\ UNCHANGED <<ledgerVars, snapshotVars, fnVars, ingestVars, bugVars, scoreVars, strategyVars, queryVars>>

\* The action: one evaluation of `while current_size < overwrite_size:` and of
\* the body it guards; leaving the loop returns.
BuildChainStep ==
    /\ chain_pc = "loop"
    /\ LET next_target == _find_next_target(object_metadata, current_size, chain_overwrite)
       IN  IF current_size < chain_overwrite /\ next_target # 0
           THEN /\ Len(chain) < MaxChain
                /\ chain' = Append(chain, object_metadata[next_target].value.name)
                /\ current_size' = current_size + object_metadata[next_target].value.size
                /\ UNCHANGED chain_pc
           ELSE /\ chain_pc' = ChainReturn(current_size, chain_overwrite)
                /\ UNCHANGED <<chain, current_size>>
    /\ UNCHANGED <<object_metadata, chain_target, chain_overwrite>>
    /\ UNCHANGED <<ledgerVars, snapshotVars, fnVars, ingestVars, bugVars, scoreVars, strategyVars, queryVars>>

\* Faulty variant: every object that fits the target size is a candidate.
SprayMatch_fits(obj, target_size) ==
    obj.size <= target_size /\ obj.class_type = "spray_candidate"

\* `obj.size == target_size and obj.class_type == ObjectClass.SPRAY_CANDIDATE`.
SprayMatch(obj, target_size) ==
    obj.size = target_size /\ obj.class_type = "spray_candidate"

RECURSIVE get_spray_candidates(_, _)
\* The list comprehension over object_metadata.values(), in dict order.
get_spray_candidates(objs, target_size) ==
    IF objs = <<>> THEN <<>>
    ELSE (IF SprayMatch(Head(objs).value, target_size) THEN <<Head(objs).value>> ELSE <<>>)
         \o get_spray_candidates(Tail(objs), target_size)

\* The action: a call of get_spray_candidates(target_size).
GetSprayCandidates(target_size) ==
    /\ ~spray_ret.called
    /\ spray_ret' = Returned([target_size |-> target_size,
                              candidates |-> get_spray_candidates(object_metadata, target_size)])
    /\ UNCHANGED <<patterns_ret, infer_ret>>
    /\ UNCHANGED <<ledgerVars, snapshotVars, fnVars, ingestVars, chainVars, bugVars, scoreVars, strategyVars>>

-----------------------------------------------------------------------------
(* Python floats: IEEE 754 binary64, round to nearest, ties to even. A float *)
(* is zero or m * 2^e with m a significand of Precision bits, written least  *)
(* significant bit first. The scores are non-negative and far from the       *)
(* exponent limits, so signs, subnormals and infinities are left out.        *)

\* The number of significand bits of a binary64.
Precision == 53

\* Bit i of a natural number written in bits, least significant first.
Bit(a, i) == IF i <= Len(a) THEN a[i] ELSE 0

RECURSIVE ChunkValue(_, _, _)
\* The number whose bits are bits lo..hi of a.
ChunkValue(a, lo, hi) ==
    IF lo > hi THEN 0
    ELSE IF lo = hi THEN Bit(a, lo)
    ELSE LET mid == (lo + hi) \div 2
         IN  ChunkValue(a, lo, mid) + 2^(mid - lo + 1) * ChunkValue(a, mid + 1, hi)

\* The low n bits of a number v.
BitsOf(v, n) == [i \in 1..n |-> (v \div 2^(i - 1)) % 2]

RECURSIVE AddChunks(_, _, _, _, _)
\* Bits lo..n of a + b + carry, fifteen bits at a time, and the carry out.
AddChunks(a, b, lo, n, carry) ==
    IF lo > n THEN (IF carry = 1 THEN <<1>> ELSE <<>>)
    ELSE LET hi == IF lo + 14 < n THEN lo + 14 ELSE n
             s == ChunkValue(a, lo, hi) + ChunkValue(b, lo, hi) + carry
             width == hi - lo + 1
         IN  BitsOf(s % 2^width, width) \o AddChunks(a, b, hi + 1, n, s \div 2^width)

\* The exact sum of two natural numbers.
BigAdd(a, b) ==
    AddChunks(a, b, 1, IF Len(a) > Len(b) THEN Len(a) ELSE Len(b), 0)

\* a * 2^d.
ShiftLeft(a, d) == IF a = <<>> THEN <<>> ELSE [i \in 1..d |-> 0] \o a

RECURSIVE MulBits(_, _, _)
MulBits(a, b, i) ==
    IF i > Len(b) THEN <<>>
    ELSE BigAdd(IF b[i] = 1 THEN ShiftLeft(a, i - 1) ELSE <<>>, MulBits(a, b, i + 1))

\* The exact product of two natural numbers.
BigMul(a, b) == MulBits(a, b, 1)

\* a < b for natural numbers without leading zeros.
BigLess(a, b) ==
    \/ Len(a) < Len(b)
    \/ /\ Len(a) = Len(b)
       /\ \E i \in DOMAIN a :
              /\ a[i] < b[i]
              /\ \A j \in (i + 1)..Len(a) : a[j] = b[j]

RECURSIVE IntToBig(_)
\* A Python int >= 0 in bits.
IntToBig(k) == IF k = 0 THEN <<>> ELSE <<k % 2>> \o IntToBig(k \div 2)

\* The float 0.0.
FloatZero == [m |-> <<>>, e |-> 0]

\* The float nearest to n * 2^e, ties to the even significand.
RoundToFloat(n, e) ==
    LET len == Len(n)
    IN  IF len = 0 THEN FloatZero
        ELSE IF len <= Precision
        THEN [m |-> ShiftLeft(n, Precision - len), e |-> e - (Precision - len)]
        ELSE LET k == len - Precision
                 kept == SubSeq(n, k + 1, len)
                 half == n[k] = 1
                 sticky == \E i \in 1..(k - 1) : n[i] = 1
                 up == half /\ (sticky \/ kept[1] = 1)
                 r == IF up THEN BigAdd(kept, <<1>>) ELSE kept
             IN  IF Len(r) > Precision
                 THEN [m |-> SubSeq(r, 2, Len(r)), e |-> e + k + 1]
                 ELSE [m |-> r, e |-> e + k]

RECURSIVE Pow2Mod(_, _)
\* 2^k modulo den, by repeated squaring.
Pow2Mod(k, den) ==
    IF k = 0 THEN 1 % den
    ELSE LET h == Pow2Mod(k \div 2, den)
         IN  (((h * h) % den) * (IF k % 2 = 1 THEN 2 ELSE 1)) % den

\* What is left of rem < den after k bits of rem / den were taken.
RemAfter(rem, den, k) == (rem * Pow2Mod(k, den)) % den

\* The next n bits of rem / den for rem < den, the last one first.
DivBits(rem, den, n) ==
    [i \in 1..n |-> IF 2 * RemAfter(rem, den, n - i) >= den THEN 1 ELSE 0]

RECURSIVE ScaledLiteral(_, _, _)
\* num / den * 2^e with the fraction brought into [1, 2).
ScaledLiteral(num, den, e) ==
    IF num < den THEN ScaledLiteral(2 * num, den, e - 1)
    ELSE IF num >= 2 * den THEN ScaledLiteral(num, 2 * den, e + 1)
    ELSE [num |-> num, den |-> den, e |-> e]

\* The float a decimal literal with the value num / den denotes: the nearest
\* float, as float("0.3") and the compiler produce it.
FloatLiteral(num, den) ==
    IF num = 0 THEN FloatZero
    ELSE LET s == ScaledLiteral(num, den, 0)
             q == DivBits(s.num - s.den, s.den, Precision)
             sticky == IF RemAfter(s.num - s.den, s.den, Precision) = 0 THEN 0 ELSE 1
         IN  RoundToFloat(<<sticky>> \o q \o <<1>>, s.e - Precision - 1)

\* x + y on floats.
FloatAdd(x, y) ==
    IF x.m = <<>> THEN y
    ELSE IF y.m = <<>> THEN x
    ELSE LET lo == IF x.e < y.e THEN x.e ELSE y.e
         IN  RoundToFloat(BigAdd(ShiftLeft(x.m, x.e - lo), ShiftLeft(y.m, y.e - lo)), lo)

\* k * x for an int k >= 0 and a float x: k converts exactly, the product is
\* rounded once.
FloatMulInt(k, x) ==
    IF k = 0 \/ x.m = <<>> THEN FloatZero
    ELSE RoundToFloat(BigMul(x.m, IntToBig(k)), x.e)

\* x < y on floats.
FloatLess(x, y) ==
    IF y.m = <<>> THEN FALSE
    ELSE IF x.m = <<>> THEN TRUE
    ELSE LET lo == IF x.e < y.e THEN x.e ELSE y.e
         IN  BigLess(ShiftLeft(x.m, x.e - lo), ShiftLeft(y.m, y.e - lo))

\* Python's min(x, y): x unless y is smaller.
FloatMin(x, y) == IF FloatLess(y, x) THEN y ELSE x

-----------------------------------------------------------------------------
(* BugAnalyzer: the target registry, the score and analyze_bug. *)

\* BugType, by value.
BugTypes == {"overflow", "use_after_free", "double_free", "heap_spray"}

BugConfig(ty, sz, off, osz, tgt) ==
    [type |-> ty, size |-> sz, offset |-> off, overwrite_size |-> osz,
     target_object |-> tgt, constraints |-> <<>>]

TargetObject(nm, sz, al, df, vt, md, es) ==
    [name |-> nm, size |-> sz, alignment |-> al, dangerous_fields |-> df,
     vtable_offset |-> vt, metadata_size |-> md, exploitability_score |-> es]

\* The float literals of the module.
Float_0_0 == FloatLiteral(0, 10)

Float_0_1 == FloatLiteral(1, 10)

Float_0_2 == FloatLiteral(2, 10)

Float_0_3 == FloatLiteral(3, 10)

Float_0_5 == FloatLiteral(5, 10)

\* random.randint(a, b): the values a draw can return.
randint(a, b) == a..b

\* The action: register_object(obj), insert or replace by name.
register_object(obj) ==
    /\ ~bug_analysis.called
    /\ known_objects' = DictSet(known_objects, obj.name, obj)
    /\ UNCHANGED <<bug_history, bug_analysis>>
    /\ UNCHANGED <<ledgerVars, snapshotVars, fnVars, ingestVars, chainVars, scoreVars, strategyVars, queryVars>>

_calculate_exploitability_score(obj, config) ==
    LET size_match ==
            IF obj.size = config.overwrite_size THEN FloatAdd(Float_0_0, Float_0_3)
            ELSE IF obj.size < config.overwrite_size THEN FloatAdd(Float_0_0, Float_0_2)
            ELSE Float_0_0
        fields ==
            FloatAdd(size_match,
                     FloatMin(Float_0_3, FloatMulInt(Len(obj.dangerous_fields), Float_0_1)))
        vtable ==
            IF obj.vtable_offset # None THEN FloatAdd(fields, Float_0_2) ELSE fields
    IN  IF obj.metadata_size <= config.offset THEN FloatAdd(vtable, Float_0_2) ELSE vtable

\* Faulty variant: a score of exactly 0.5 is promising too.
Promising_atleast(score) == ~FloatLess(score, Float_0_5)

\* `if score > 0.5`.
Promising(score) == FloatLess(Float_0_5, score)

RECURSIVE FilterCandidates(_, _, _)
\* The loop of _find_target_candidates over known_objects.values().
FilterCandidates(objs, i, config) ==
    IF i > Len(objs) THEN <<>>
    ELSE LET obj == objs[i].value
             rest == FilterCandidates(objs, i + 1, config)
         IN  IF obj.size > config.overwrite_size THEN rest
             ELSE IF (config.offset + obj.size) % obj.alignment # 0 THEN rest
             ELSE IF obj.dangerous_fields = <<>> THEN rest
             ELSE IF Promising(_calculate_exploitability_score(obj, config))
             THEN <<obj>> \o rest
             ELSE rest

\* `key=lambda x: x.exploitability_score`: the field the object was built with.
SortKey(x) == x.exploitability_score

RECURSIVE InsertDescending(_, _)
\* x goes behind every element whose key is not smaller than its own.
InsertDescending(s, x) ==
    IF s = <<>> THEN <<x>>
    ELSE IF FloatLess(SortKey(Head(s)), SortKey(x)) THEN <<x>> \o s
    ELSE <<Head(s)>> \o InsertDescending(Tail(s), x)

RECURSIVE SortedDescending(_, _)
\* sorted(candidates, key=..., reverse=True): stable, equal keys keep their order.
SortedDescending(done, todo) ==
    IF todo = <<>> THEN done
    ELSE SortedDescending(InsertDescending(done, Head(todo)), Tail(todo))

_find_target_candidates(objs, config) ==
    SortedDescending(<<>>, FilterCandidates(objs, 1, config))

\* A step dict with and without the key "size".
AllocateStep(object, count, size) ==
    [type |-> "allocate", object |-> object, count |-> count, size |-> size]

FreeStep(object, count) ==
    [type |-> "free", object |-> object, count |-> count]

\* Faulty variant: the target is freed before the fillers are allocated.
_generate_uaf_sequence_freefirst(target, config, count) ==
    <<AllocateStep(target.name, 1, target.size),
      FreeStep(target.name, 1),
      AllocateStep("array", count, target.size),
      AllocateStep("array", 1, target.size)>>

\* count is the value random.randint(10, 20) returned.
_generate_uaf_sequence(target, config, count) ==
    <<AllocateStep(target.name, 1, target.size),
      AllocateStep("array", count, target.size),
      FreeStep(target.name, 1),
      AllocateStep("array", 1, target.size)>>

_generate_overflow_sequence(target, config) ==
    <<AllocateStep(target.name, 1, target.size),
      AllocateStep("array", 1, config.overwrite_size)>>

_generate_double_free_sequence(target, config) ==
    <<AllocateStep(target.name, 1, target.size),
      FreeStep(target.name, 1),
      AllocateStep("array", 1, target.size),
      FreeStep(target.name, 1)>>

\* The draws _generate_grooming_sequences makes: one per candidate of a
\* use-after-free scenario, none otherwise.
SequenceDraws(config, candidates) ==
    IF config.type = "use_after_free"
    THEN [DOMAIN candidates -> randint(10, 20)]
    ELSE {[i \in DOMAIN candidates |-> None]}

\* counts[i] is the draw made for candidates[i].
_generate_grooming_sequences(config, candidates, counts) ==
    [i \in DOMAIN candidates |->
        [target |-> candidates[i].name,
         steps |->
            IF config.type = "use_after_free"
            THEN _generate_uaf_sequence(candidates[i], config, counts[i])
            ELSE IF config.type = "overflow"
            THEN _generate_overflow_sequence(candidates[i], config)
            ELSE IF config.type = "double_free"
            THEN _generate_double_free_sequence(candidates[i], config)
            ELSE <<>>]]

\* Faulty variant: an empty candidate list yields no factor.
NoCandidatesAnalysis_silent ==
    [overall_score |-> Float_0_0, factors |-> <<>>, recommendations |-> <<>>]

\* What _analyze_exploitability returns for `not candidates`.
NoCandidatesAnalysis ==
    [overall_score |-> Float_0_0,
     factors |-> <<"No suitable target objects found">>,
     recommendations |-> <<>>]

_analyze_exploitability(config, candidates) ==
    IF candidates = <<>> THEN NoCandidatesAnalysis
    ELSE LET best_candidate == candidates[1]
         IN  [overall_score |-> best_candidate.exploitability_score,
              factors |->
                 (IF best_candidate.vtable_offset # None
                  THEN <<"Vtable manipulation possible">> ELSE <<>>)
                 \o (IF Len(best_candidate.dangerous_fields) > 0
                     THEN <<"Found " \o ToString(Len(best_candidate.dangerous_fields))
                              \o " dangerous fields">>
                     ELSE <<>>),
              recommendations |->
                 IF config.type = "use_after_free"
                 THEN <<"Consider using heap spraying to increase reliability">>
                 ELSE IF config.type = "overflow"
                 THEN <<"Ensure proper alignment of target objects">>
                 ELSE <<>>]

\* The dicts analyze_bug(config) can return over the registry objs: one per
\* outcome of the draws of _generate_grooming_sequences.
AnalyzeBugReturns(objs, config) ==
    LET candidates == _find_target_candidates(objs, config)
        exploitability == _analyze_exploitability(config, candidates)
    IN  {[candidates |-> candidates,
          sequences |-> _generate_grooming_sequences(config, candidates, counts),
          exploitability |-> exploitability] :
            counts \in SequenceDraws(config, candidates)}

\* The action: analyze_bug(config), once per run of the analyzer.
analyze_bug(config) ==
    /\ ~bug_analysis.called
    /\ bug_history' = Append(bug_history, config)
    /\ \E result \in AnalyzeBugReturns(known_objects, config) :
           bug_analysis' = Returned(result)
    /\ UNCHANGED known_objects
    /\ UNCHANGED <<ledgerVars, snapshotVars, fnVars, ingestVars, chainVars, scoreVars, strategyVars, queryVars>>

\* The action: _calculate_exploitability_score(obj, config) on score_args.
CallScore ==
    /\ ~score_ret.called
    /\ score_ret' = Returned(_calculate_exploitability_score(score_args.obj, score_args.config))
    /\ UNCHANGED <<score_args, ledgerVars, snapshotVars, fnVars, ingestVars, chainVars, bugVars, strategyVars, queryVars>>

-----------------------------------------------------------------------------
(* StrategyGenerator: the steps, the trigger and the description of a        *)
(* strategy.                                                                 *)
(* generate_strategy stores what each of these methods returns, unchanged,   *)
(* in the GroomingStrategy it returns.                                       *)

AllocationStep(size, count, object_type, fill_pattern) ==
    [size |-> size, count |-> count, object_type |-> object_type,
     fill_pattern |-> fill_pattern, delay_ms |-> 0]

TriggerCondition(type, value) ==
    [type |-> type, value |-> value, custom_code |-> None]

\* Python's truth value of an Optional[int]: None and 0 are false.
Truthy(x) == x # None /\ x # 0

\* Faulty variant: the filler is added whenever an overwrite_size is given.
NeedsFiller_always(target_size, overwrite_size) ==
    Truthy(overwrite_size)

\* `if overwrite_size and overwrite_size > target_size`.
NeedsFiller(target_size, overwrite_size) ==
    Truthy(overwrite_size) /\ overwrite_size > target_size

\* spray and filler are the values of random.randint(50, 100) and
\* random.randint(20, 40).
_generate_allocation_steps(target_size, target_type, overwrite_size, spray, filler) ==
    <<AllocationStep(target_size, spray, "array", "0x41")>>
    \o (IF NeedsFiller(target_size, overwrite_size)
        THEN <<AllocationStep(overwrite_size - target_size, filler, "array", "0x42")>>
        ELSE <<>>)
    \o <<AllocationStep(target_size, 1, target_type, "0x43")>>

\* The draws _generate_allocation_steps makes: the second only on its branch.
FillerDraws(target_size, overwrite_size) ==
    IF NeedsFiller(target_size, overwrite_size) THEN randint(20, 40) ELSE {None}

\* Faulty variant: JSObject waits for a collection like the buffer types.
GcTypes_withobject == {"ArrayBuffer", "TypedArray", "JSObject"}

\* `target_type in ["ArrayBuffer", "TypedArray"]`.
GcTypes == {"ArrayBuffer", "TypedArray"}

\* `target_type in ["JSFunction", "JSObject"]`.
ImmediateTypes == {"JSFunction", "JSObject"}

\* The triggers _generate_trigger_condition can return: one per value of its
\* random.randint call, a single one where it makes none.
_generate_trigger_condition(target_type) ==
    IF target_type \in GcTypes
    THEN {TriggerCondition("gc_trigger", v) : v \in randint(1000, 3000)}
    ELSE IF target_type \in ImmediateTypes
    THEN {TriggerCondition("immediate", None)}
    ELSE {TriggerCondition("timeout", v) : v \in randint(500, 2000)}

DeallocationStep(object_type, count, delay_ms) ==
    [object_type |-> object_type, count |-> count, delay_ms |-> delay_ms]

\* Faulty variant: up to 60 fillers are freed.
FreedFillers_upto60 == randint(20, 60)

\* count=random.randint(20, 40) of the first deallocation step.
FreedFillers == randint(20, 40)

\* filler, delay1 and delay2 are the values of random.randint(20, 40) and of
\* the two random.randint(100, 500) calls.
_generate_deallocation_steps(target_size, target_type, filler, delay1, delay2) ==
    <<DeallocationStep("array", filler, delay1),
      DeallocationStep(target_type, 1, delay2)>>

RECURSIVE AllocationLines(_)
\* f"- Allocate {step.count} {step.object_type}(s) of size {step.size}" per step.
AllocationLines(steps) ==
    IF steps = <<>> THEN <<>>
    ELSE <<"- Allocate " \o ToString(Head(steps).count) \o " " \o Head(steps).object_type
           \o "(s) of size " \o ToString(Head(steps).size)>>
         \o AllocationLines(Tail(steps))

RECURSIVE DeallocationLines(_)
\* f"- Deallocate {step.count} {step.object_type}(s)" per step.
DeallocationLines(steps) ==
    IF steps = <<>> THEN <<>>
    ELSE <<"- Deallocate " \o ToString(Head(steps).count) \o " " \o Head(steps).object_type
           \o "(s)">>
         \o DeallocationLines(Tail(steps))

\* The line of the trigger; a custom trigger gets none.
TriggerLines(trigger) ==
    IF trigger.type = "immediate" THEN <<"- Immediate trigger">>
    ELSE IF trigger.type = "gc_trigger"
    THEN <<"- GC trigger after " \o ToString(trigger.value) \o "ms">>
    ELSE IF trigger.type = "timeout"
    THEN <<"- Timeout trigger after " \o ToString(trigger.value) \o "ms">>
    ELSE <<>>

RECURSIVE JoinLines(_)
\* "\n".join(desc)
JoinLines(desc) ==
    IF desc = <<>> THEN ""
    ELSE IF Len(desc) = 1 THEN desc[1]
    ELSE desc[1] \o "\n" \o JoinLines(Tail(desc))

_generate_description(allocation_steps, deallocation_steps, trigger) ==
    JoinLines(<<"Allocation Steps:">> \o AllocationLines(allocation_steps)
              \o <<"\nDeallocation Steps:">> \o DeallocationLines(deallocation_steps)
              \o <<"\nTrigger:">> \o TriggerLines(trigger))

GenNotCalled ==
    [allocation_steps |-> NotCalled, deallocation_steps |-> NotCalled,
     trigger |-> NotCalled, description |-> NotCalled]

\* The delays drawn for the deallocation steps: the ends and the middle of
\* random.randint(100, 500).
DelayDraws == {d \in randint(100, 500) : d % 200 = 100}

\* The action: _generate_allocation_steps on gen_args.
CallAllocationSteps ==
    /\ ~gen_ret.allocation_steps.called
    /\ \E spray \in randint(50, 100),
          filler \in FillerDraws(gen_args.target_size, gen_args.overwrite_size) :
           gen_ret' = [gen_ret EXCEPT !.allocation_steps =
                         Returned(_generate_allocation_steps(
                             gen_args.target_size, gen_args.target_type,
                             gen_args.overwrite_size, spray, filler))]
    /\ UNCHANGED <<gen_args, ledgerVars, snapshotVars, fnVars, ingestVars, chainVars, bugVars, scoreVars, queryVars>>

\* The action: _generate_trigger_condition on gen_args.
CallTriggerCondition ==
    /\ ~gen_ret.trigger.called
    /\ \E t \in _generate_trigger_condition(gen_args.target_type) :
           gen_ret' = [gen_ret EXCEPT !.trigger = Returned(t)]
    /\ UNCHANGED <<gen_args, ledgerVars, snapshotVars, fnVars, ingestVars, chainVars, bugVars, scoreVars, queryVars>>

\* The action: generate_strategy(target_size, target_type, overwrite_size) on
\* gen_args, with every value its random.randint calls can return for the
\* counts and the values DelayDraws for the two delays.
generate_strategy ==
    /\ gen_ret = GenNotCalled
    /\ \E spray \in randint(50, 100),
          filler \in FillerDraws(gen_args.target_size, gen_args.overwrite_size),
          freed \in FreedFillers, delay1 \in DelayDraws, delay2 \in DelayDraws,
          trigger \in _generate_trigger_condition(gen_args.target_type) :
           LET allocation_steps ==
                   _generate_allocation_steps(gen_args.target_size, gen_args.target_type,
                                              gen_args.overwrite_size, spray, filler)
               deallocation_steps ==
                   _generate_deallocation_steps(gen_args.target_size, gen_args.target_type,
                                                freed, delay1, delay2)
           IN  gen_ret' =
                   [allocation_steps |-> Returned(allocation_steps),
                    deallocation_steps |-> Returned(deallocation_steps),
                    trigger |-> Returned(trigger),
                    description |-> Returned(_generate_description(
                                        allocation_steps, deallocation_steps, trigger))]
    /\ UNCHANGED <<gen_args, ledgerVars, snapshotVars, fnVars, ingestVars, chainVars, bugVars, scoreVars, queryVars>>

-----------------------------------------------------------------------------
(* AllocatorAnalyzer: the queries over the recorded history. *)

\* An instance of the AllocationEvent dataclass of allocator/analyzer.py.
AnalyzerEvent(sz, addr) ==
    [py_type |-> "AllocationEvent", size |-> sz, address |-> addr,
     timestamp |-> 0, object_type |-> "array", bucket_index |-> None]

RECURSIVE AddressesOfSize(_, _)
\* [event.address for event in self.allocation_history if event.size == size]
AddressesOfSize(history, size) ==
    IF history = <<>> THEN <<>>
    ELSE (IF Head(history).size = size THEN <<Head(history).address>> ELSE <<>>)
         \o AddressesOfSize(Tail(history), size)

\* len(set(addresses))
DistinctCount(addresses) ==
    Cardinality({addresses[i] : i \in DOMAIN addresses})

\* Python's a / b on ints: the float nearest to the quotient.
TrueDiv(a, b) == FloatLiteral(a, b)

\* `if len(addresses) < 2: continue` lets through the sizes with two events.
EnoughEvents(addresses) ==
    ~(Len(addresses) < 2)

RECURSIVE PatternsFrom(_, _, _, _)
\* The loop of detect_reuse_patterns over slot_analysis.items() from item i on.
PatternsFrom(history, sa, i, patterns) ==
    IF i > Len(sa) THEN patterns
    ELSE
        LET size == sa[i].key
            addresses == AddressesOfSize(history, size)
            reuse_count == Len(addresses) - DistinctCount(addresses)
        IN  IF EnoughEvents(addresses)
            THEN PatternsFrom(history, sa, i + 1,
                     DictSet(patterns, size,
                         [reuse_frequency |-> TrueDiv(reuse_count, Len(addresses)),
                          unique_addresses |-> DistinctCount(addresses),
                          total_allocations |-> Len(addresses)]))
            ELSE PatternsFrom(history, sa, i + 1, patterns)

detect_reuse_patterns(history, sa) ==
    PatternsFrom(history, sa, 1, <<>>)

\* The action: record_allocation(event) with a dataclass instance.
RecordAllocation(event) ==
    /\ LET r == record_allocation(allocation_history, slot_analysis, event)
       IN  /\ allocation_history' = r.history
           /\ slot_analysis' = r.slot_analysis
    /\ patterns_ret' = NotCalled
    /\ UNCHANGED <<batch, batch_pos, ingest_pc, infer_ret, spray_ret>>
    /\ UNCHANGED <<ledgerVars, snapshotVars, fnVars, chainVars, bugVars, scoreVars, strategyVars>>

\* The action: a call of detect_reuse_patterns on the current history.
DetectReusePatterns ==
    /\ ~patterns_ret.called
    /\ patterns_ret' = Returned(detect_reuse_patterns(allocation_history, slot_analysis))
    /\ UNCHANGED <<infer_ret, spray_ret>>
    /\ UNCHANGED <<ledgerVars, snapshotVars, fnVars, ingestVars, chainVars, bugVars, scoreVars, strategyVars>>

RECURSIVE SortedInts(_)
\* sorted(list) on ints.
SortedInts(s) ==
    IF s = <<>> THEN <<>>
    ELSE
        LET m == CHOOSE i \in DOMAIN s : \A k \in DOMAIN s : s[i] <= s[k]
        IN  <<s[m]>> \o SortedInts(SubSeq(s, 1, m - 1) \o SubSeq(s, m + 1, Len(s)))

\* sorted([event.size for event in self.allocation_history])
SortedSizes(history) ==
    SortedInts([i \in DOMAIN history |-> history[i].size])

\* n_clusters=min(10, len(sizes)): sizes has one entry per recorded event.
RequestedClusters(sizes) ==
    IF 10 < Len(sizes) THEN 10 ELSE Len(sizes)

\* KMeans(n_clusters=k).fit_predict(sizes) of scikit-learn: one label in
\* 0..k-1 per sample, the label of the nearest centre, so equal samples get
\* equal labels. Which centres the library finds is left open: every such
\* labelling is a possible outcome.
Clusterings(sizes, k) ==
    [{sizes[i] : i \in DOMAIN sizes} -> 0..(k - 1)]

\* [s for s, c in zip(sizes, clusters) if c == i]
ClusterSizes(sizes, labels, i) ==
    SelectSeq(sizes, LAMBDA s : labels[s] = i)

RECURSIVE BoundariesFrom(_, _, _, _, _)
\* The loop `for i in range(len(kmeans.cluster_centers_))` from cluster i on,
\* cluster_centers_ having k rows; sizes being sorted, min and max of a cluster
\* are its first and last member, and min() of an empty cluster raises
\* ValueError out of the call.
BoundariesFrom(sizes, labels, k, i, boundaries) ==
    IF i >= k THEN [raised |-> "none", bucket_boundaries |-> boundaries]
    ELSE
        LET cluster_sizes == ClusterSizes(sizes, labels, i)
        IN  IF cluster_sizes = <<>>
            THEN [raised |-> "ValueError", bucket_boundaries |-> boundaries]
            ELSE BoundariesFrom(sizes, labels, k, i + 1,
                     DictSet(boundaries, i,
                             <<cluster_sizes[1], cluster_sizes[Len(cluster_sizes)]>>))

\* The outcomes of infer_bucket_boundaries() on an analyzer whose
\* bucket_boundaries is as the constructor left it: the local sizes, the
\* n_clusters it passed to KMeans (None when it returned before), the exception
\* it raised and bucket_boundaries after the call, which is also what it
\* returns when it raises nothing.
infer_bucket_boundaries(history) ==
    LET sizes == SortedSizes(history)
        k == RequestedClusters(sizes)
    IN  IF sizes = <<>>
        THEN {[sizes |-> sizes, n_clusters |-> None, raised |-> "none",
               bucket_boundaries |-> <<>>]}
        ELSE {[sizes |-> sizes, n_clusters |-> k,
               raised |-> BoundariesFrom(sizes, labels, k, 0, <<>>).raised,
               bucket_boundaries |->
                   BoundariesFrom(sizes, labels, k, 0, <<>>).bucket_boundaries] :
                labels \in Clusterings(sizes, k)}

\* The action: the first call of infer_bucket_boundaries on the analyzer.
InferBucketBoundaries ==
    /\ ~infer_ret.called
    /\ \E outcome \in infer_bucket_boundaries(allocation_history) :
           infer_ret' = Returned(outcome)
    /\ UNCHANGED <<patterns_ret, spray_ret>>
    /\ UNCHANGED <<ledgerVars, snapshotVars, fnVars, ingestVars, chainVars, bugVars, scoreVars, strategyVars>>

-----------------------------------------------------------------------------
(* The pure functions, called on the arguments fn_args. *)

FnNotCalled ==
    [infer_alignment |-> NotCalled, infer_slot_size |-> NotCalled,
     detect_alignment |-> NotCalled, classify_object |-> NotCalled]

CallInferAlignment ==
    /\ ~fn_ret.infer_alignment.called
    /\ fn_ret' = [fn_ret EXCEPT !.infer_alignment = Returned(_infer_alignment(fn_args.size))]
    /\ UNCHANGED <<fn_args, ledgerVars, snapshotVars, ingestVars, chainVars, bugVars, scoreVars, strategyVars, queryVars>>

CallInferSlotSize ==
    /\ ~fn_ret.infer_slot_size.called
    /\ fn_ret' = [fn_ret EXCEPT !.infer_slot_size = Returned(_infer_slot_size(fn_args.size))]
    /\ UNCHANGED <<fn_args, ledgerVars, snapshotVars, ingestVars, chainVars, bugVars, scoreVars, strategyVars, queryVars>>

CallDetectAlignment ==
    /\ ~fn_ret.detect_alignment.called
    /\ fn_ret' = [fn_ret EXCEPT !.detect_alignment = Returned(_detect_alignment(fn_args.size))]
    /\ UNCHANGED <<fn_args, ledgerVars, snapshotVars, ingestVars, chainVars, bugVars, scoreVars, strategyVars, queryVars>>

CallClassifyObject ==
    /\ ~fn_ret.classify_object.called
    /\ fn_ret' = [fn_ret EXCEPT !.classify_object =
                    Returned(classify_object("object", fn_args.size, fn_args.has_vtable))]
    /\ UNCHANGED <<fn_args, ledgerVars, snapshotVars, ingestVars, chainVars, bugVars, scoreVars, strategyVars, queryVars>>

-----------------------------------------------------------------------------
(* The inputs the specifications draw from. *)

Sizes == {16, 24}

Addresses == {None, 1, 2}

Timestamps == {0}

OptBucketIndexes == BucketIndexes \cup {None}

\* The events of the ledger specification.
EventInputs ==
    {AllocationEvent(ts, ty, sz, a, b) :
        ts \in Timestamps, ty \in EventTypes, sz \in Sizes, a \in Addresses,
        b \in OptBucketIndexes}

\* Events that arrive with timestamps in any order. A timestamp is a float;
\* the whole numbers 1.0 and 2.0 stand for an earlier and a later one.
ArrivalEventInputs ==
    {AllocationEvent(ts, ty, 16, 1, b) :
        ts \in {1, 2}, ty \in EventTypes, b \in {None, 0}}

\* Events whose size may be zero or negative: AllocationEvent.size is a plain int.
AnySizeEventInputs ==
    {AllocationEvent(ts, ty, sz, 1, b) :
        ts \in Timestamps, ty \in EventTypes, sz \in {-8, 0, 16}, b \in {None, 0}}

\* Events without a bucket index, for the reuse matcher.
ReuseEventInputs ==
    {AllocationEvent(ts, "alloc", sz, a, None) :
        ts \in Timestamps, sz \in Sizes, a \in {1, 2}}
    \cup {AllocationEvent(ts, "free", 16, a, None) : ts \in Timestamps, a \in {1, 2}}

\* Events of either size in either bucket, for the pairing of the matcher.
MatcherEventInputs ==
    {AllocationEvent(ts, ty, sz, a, b) :
        ts \in Timestamps, ty \in EventTypes, sz \in Sizes, a \in {1, 2}, b \in {0, 1}}

\* Events of the snapshot round trip.
RoundTripEventInputs ==
    {AllocationEvent(ts, ty, sz, a, b) :
        ts \in Timestamps, ty \in EventTypes, sz \in Sizes, a \in {None, 1},
        b \in OptBucketIndexes}

\* The records of an events file: with and without the key "size".
RecordInputs ==
    {JsonRecord({"size", "address", "timestamp", "object_type"}, sz, a) :
        sz \in Sizes, a \in {1, 2}}
    \cup {JsonRecord({"address", "timestamp", "object_type"}, None, a) : a \in {1, 2}}

RECURSIVE SeqsUpTo(_, _)
\* The sequences over S of length 0..n.
SeqsUpTo(S, n) ==
    IF n = 0 THEN {<<>>}
    ELSE LET shorter == SeqsUpTo(S, n - 1)
         IN  shorter \cup {Append(q, x) : q \in shorter, x \in S}

\* The events files: lists of 0..MaxBatch records.
BatchInputs == SeqsUpTo(RecordInputs, MaxBatch)

MetadataInputs ==
    {ObjectMetadata(nm, sz, ct) :
        nm \in {"A", "B"}, sz \in {0, 16, 32, 48},
        ct \in {"harmless", "dangerous", "spray_candidate"}}

OverwriteSizes == {16, 64}

\* The target sizes get_spray_candidates is asked for.
SpraySizes == {0, 16, 32, 48}

\* The target objects of the analysis. With the scenario of ConfigInputs
\* (offset 0, overwrite_size 32) the first set passes the filters of
\* _find_target_candidates and has scores on both sides of 0.5; each object of
\* the second set fails one filter: too large, unaligned, no dangerous field.
TargetInputs ==
    {TargetObject(nm, sz, 16, df, vt, 0, es) :
        nm \in {"A", "B"}, sz \in {16, 32},
        df \in {<<"vtable">>, <<"vtable", "length", "data">>},
        vt \in {None, 0}, es \in {Float_0_0, FloatLiteral(7, 10)}}
    \cup {TargetObject(nm, sz, 16, <<"vtable", "length", "data">>, 0, 0, FloatLiteral(7, 10)) :
            nm \in {"A", "B"}, sz \in {24, 48}}
    \cup {TargetObject(nm, 32, 16, <<>>, 0, 0, FloatLiteral(7, 10)) : nm \in {"A", "B"}}

ConfigInputs ==
    {BugConfig(ty, 32, 0, 32, "A") : ty \in BugTypes}

\* The arguments of the score: every combination of its four factors.
ScoreInputs ==
    [obj : {TargetObject("A", sz, 16, df, vt, md, Float_0_0) :
                sz \in {16, 32, 48},
                df \in {<<>>, <<"a">>, <<"a", "b">>, <<"a", "b", "c">>, <<"a", "b", "c", "d">>},
                vt \in {None, 0}, md \in {0, 8}},
     config : {BugConfig("overflow", 32, off, 32, "A") : off \in {0, 8}}]

\* The events recorded by record_allocation: two sizes, two addresses.
AnalyzerEventInputs ==
    {AnalyzerEvent(sz, a) : sz \in Sizes, a \in {1, 2}}

\* The arguments of generate_strategy.
StrategyInputs ==
    [target_size : {0, 16, 32},
     target_type : {"ArrayBuffer", "TypedArray", "JSFunction", "JSObject", "Map", ""},
     overwrite_size : {None, 0, 16, 32, 48}]

\* The arguments of generate_strategy for whole strategies: target types whose
\* trigger needs no draw, with and without a larger overwrite_size.
GenerateInputs ==
    [target_size : {16},
     target_type : {"JSFunction", "JSObject"},
     overwrite_size : {None, 32}]

-----------------------------------------------------------------------------
(* Initial states: every component as its constructor leaves it. *)

InitLedger ==
    events = <<>> /\ buckets = <<>> /\ raised = "none" /\ reuse_ret = NotCalled

InitSnapshot ==
    file = NotCalled /\ loaded = FreshAnalyzer /\ file2 = NotCalled

IdleFn ==
    fn_args = [size |-> 0, has_vtable |-> FALSE] /\ fn_ret = FnNotCalled

InitAllocator ==
    allocation_history = <<>> /\ slot_analysis = <<>>

IdleIngest ==
    InitAllocator /\ batch = <<>> /\ batch_pos = 1 /\ ingest_pc = "idle"

InitFreelist ==
    /\ object_metadata = <<>>
    /\ chain_pc = "idle"
    /\ chain_target = ObjectMetadata("A", 0, "harmless")
    /\ chain_overwrite = 0
    /\ chain = <<>>
    /\ current_size = 0

InitBug ==
    known_objects = <<>> /\ bug_history = <<>> /\ bug_analysis = NotCalled

IdleScore ==
    /\ score_args = [obj |-> TargetObject("A", 0, 8, <<>>, None, 0, Float_0_0),
                     config |-> BugConfig("overflow", 0, 0, 0, "A")]
    /\ score_ret = NotCalled

IdleStrategy ==
    /\ gen_args = [target_size |-> 0, target_type |-> "", overwrite_size |-> None]
    /\ gen_ret = GenNotCalled

IdleQuery ==
    patterns_ret = NotCalled /\ infer_ret = NotCalled /\ spray_ret = NotCalled

-----------------------------------------------------------------------------
(* The ledger: any sequence of add_event calls. *)

Init ==
    /\ InitLedger /\ InitSnapshot /\ IdleFn /\ IdleIngest /\ InitFreelist
    /\ InitBug /\ IdleScore /\ IdleStrategy /\ IdleQuery

Next ==
    /\ Len(events) < MaxEvents
    /\ \E e \in EventInputs : add_event(e)

Spec == Init /\ [][Next]_vars

(* The ledger fed events of any size. *)

NextValidation ==
    /\ Len(events) < MaxEvents
    /\ \E e \in AnySizeEventInputs : add_event(e)

SpecValidation == Init /\ [][NextValidation]_vars

(* The ledger fed events whose timestamps are out of order. *)

NextArrival ==
    /\ Len(events) < MaxEvents
    /\ \E e \in ArrivalEventInputs : add_event(e)

SpecArrival == Init /\ [][NextArrival]_vars

(* The reuse matcher over any log. *)

AddReuseEvent ==
    /\ Len(events) < MaxReuseEvents
    /\ \E e \in ReuseEventInputs : add_event(e)

NextReuse ==
    \/ AddReuseEvent
    \/ AnalyzeReusePatterns

SpecReuse == Init /\ [][NextReuse]_vars

(* The reuse matcher over logs of events with sizes and bucket indexes. *)

AddMatcherEvent ==
    /\ Len(events) < MaxEvents
    /\ \E e \in MatcherEventInputs : add_event(e)

NextMatcher ==
    \/ AddMatcherEvent
    \/ AnalyzeReusePatterns

SpecMatcher == Init /\ [][NextMatcher]_vars

(* The snapshot round trip: record, export, load into a fresh analyzer, export. *)

AddRoundTripEvent ==
    /\ ~file.called
    /\ Len(events) < MaxEvents
    /\ \E e \in RoundTripEventInputs : add_event(e)

NextRoundTrip ==
    \/ AddRoundTripEvent
    \/ export_analysis
    \/ load_analysis
    \/ export_again

SpecRoundTrip == Init /\ [][NextRoundTrip]_vars

(* The pure functions over their inputs. *)

InitFn ==
    /\ InitLedger /\ InitSnapshot /\ IdleIngest /\ InitFreelist
    /\ InitBug /\ IdleScore /\ IdleStrategy /\ IdleQuery
    /\ fn_args \in [size : 0..MaxSize, has_vtable : BOOLEAN]
    /\ fn_ret = FnNotCalled

NextFn ==
    \/ CallInferAlignment
    \/ CallInferSlotSize
    \/ CallDetectAlignment
    \/ CallClassifyObject

SpecFn == InitFn /\ [][NextFn]_vars

(* The ingestion of an events file by analyze_allocator. *)

InitIngest ==
    /\ InitLedger /\ InitSnapshot /\ IdleFn /\ InitFreelist
    /\ InitBug /\ IdleScore /\ IdleStrategy /\ IdleQuery
    /\ InitAllocator
    /\ batch \in BatchInputs
    /\ batch_pos = 1
    /\ ingest_pc = "loading"

NextIngest ==
    \/ IngestRecord
    \/ IngestDone

SpecIngest == InitIngest /\ [][NextIngest]_vars

(* The registry and the overwrite-chain builder. *)

RegisterObject ==
    \E m \in MetadataInputs : register_object_type(m)

StartChain ==
    \E i \in DOMAIN object_metadata, osz \in OverwriteSizes :
        BuildChainStart(object_metadata[i].value, osz)

NextChain ==
    \/ RegisterObject
    \/ StartChain
    \/ BuildChainStep

SpecChain == Init /\ [][NextChain]_vars

(* The registry and one query for spray candidates. *)

RegisterBeforeQuery ==
    /\ ~spray_ret.called
    /\ \E m \in MetadataInputs : register_object_type(m)

QuerySprayCandidates ==
    \E target_size \in SpraySizes : GetSprayCandidates(target_size)

NextSpray ==
    \/ RegisterBeforeQuery
    \/ QuerySprayCandidates

SpecSpray == Init /\ [][NextSpray]_vars

(* The target registry and one analysis. *)

RegisterTarget ==
    \E obj \in TargetInputs : register_object(obj)

AnalyzeBug ==
    \E config \in ConfigInputs : analyze_bug(config)

NextBug ==
    \/ RegisterTarget
    \/ AnalyzeBug

SpecBug == Init /\ [][NextBug]_vars

(* The score over its arguments. *)

InitScore ==
    /\ InitLedger /\ InitSnapshot /\ IdleFn /\ IdleIngest /\ InitFreelist
    /\ InitBug /\ IdleStrategy /\ IdleQuery
    /\ score_args \in ScoreInputs
    /\ score_ret = NotCalled

SpecScore == InitScore /\ [][CallScore]_vars

(* The methods of the strategy generator over their arguments. *)

InitStrategy ==
    /\ InitLedger /\ InitSnapshot /\ IdleFn /\ IdleIngest /\ InitFreelist
    /\ InitBug /\ IdleScore /\ IdleQuery
    /\ gen_args \in StrategyInputs
    /\ gen_ret = GenNotCalled

SpecAllocationSteps == InitStrategy /\ [][CallAllocationSteps]_vars

SpecTrigger == InitStrategy /\ [][CallTriggerCondition]_vars

(* Whole strategies. *)

InitGenerate ==
    /\ InitLedger /\ InitSnapshot /\ IdleFn /\ IdleIngest /\ InitFreelist
    /\ InitBug /\ IdleScore /\ IdleQuery
    /\ gen_args \in GenerateInputs
    /\ gen_ret = GenNotCalled

SpecStrategy == InitGenerate /\ [][generate_strategy]_vars

(* The allocator analyzer: recorded events and the queries over them. *)

AddAnalyzerEvent ==
    /\ Len(allocation_history) < MaxHistory
    /\ \E e \in AnalyzerEventInputs : RecordAllocation(e)

NextAllocator ==
    \/ AddAnalyzerEvent
    \/ DetectReusePatterns
    \/ InferBucketBoundaries

SpecAllocator == Init /\ [][NextAllocator]_vars

-----------------------------------------------------------------------------
(* Properties of the ledger (Spec). *)

FreeOf(bs, k) == IF DictHas(bs, k) THEN DictGet(bs, k).free_slots ELSE <<>>

UsedOf(bs, k) == IF DictHas(bs, k) THEN DictGet(bs, k).used_slots ELSE <<>>

NoDuplicates(s) == \A i, j \in DOMAIN s : i # j => s[i] # s[j]

\* C1: in every bucket, no address is in both free_slots and used_slots and
\* no address occurs twice in either list.
C1_FreeUsedExclusive ==
    \A k \in DOMAIN buckets :
        LET b == buckets[k].value
        IN  /\ NoDuplicates(b.free_slots)
            /\ NoDuplicates(b.used_slots)
            /\ \A i \in DOMAIN b.free_slots :
                   ~SeqContains(b.used_slots, b.free_slots[i])

\* C1 witness: address 1 of bucket 0 was allocated, freed and allocated again;
\* the bucket holds it in used_slots only.
C1_Witness ==
    /\ Len(events) = 3
    /\ \A i \in 1..3 : events[i].bucket_index = 0 /\ events[i].address = 1
    /\ events[1].event_type = "alloc"
    /\ events[2].event_type = "free"
    /\ events[3].event_type = "alloc"
    /\ UsedOf(buckets, 0) = <<1>>
    /\ FreeOf(buckets, 0) = <<>>

\* C2: an add_event step of an event with a bucket index leaves an allocated
\* address in used_slots and not in free_slots, and moves a freed address that
\* was in used_slots to free_slots.
C2_RecordMovesAddress ==
    [][Len(events') = Len(events) + 1 =>
        LET e == events'[Len(events')]
            k == e.bucket_index
        IN  k # None =>
              /\ e.event_type = "alloc" =>
                    /\ SeqContains(UsedOf(buckets', k), e.address)
                    /\ ~SeqContains(FreeOf(buckets', k), e.address)
              /\ (e.event_type = "free" /\ SeqContains(UsedOf(buckets, k), e.address)) =>
                    /\ SeqContains(FreeOf(buckets', k), e.address)
                    /\ ~SeqContains(UsedOf(buckets', k), e.address)]_vars

\* C2 witness: a free of a used address has moved it to free_slots while
\* another address of the bucket stays used.
C2_Witness ==
    /\ Len(events) = 3
    /\ events[1].event_type = "alloc" /\ events[1].address = 1
    /\ events[2].event_type = "alloc" /\ events[2].address = 2
    /\ events[3].event_type = "free" /\ events[3].address = 1
    /\ \A i \in 1..3 : events[i].bucket_index = 1
    /\ FreeOf(buckets, 1) = <<1>>
    /\ UsedOf(buckets, 1) = <<2>>

-----------------------------------------------------------------------------
(* Properties of the pure functions (SpecFn). *)

\* C3: for a positive size, the alignment is one of 8, 16, 32, 64 and the slot
\* size is the size rounded up to the next multiple of that alignment.
C3_SlotSizeAligned ==
    fn_args.size > 0 =>
        /\ fn_ret.infer_alignment.called =>
              fn_ret.infer_alignment.value \in {8, 16, 32, 64}
        /\ (fn_ret.infer_alignment.called /\ fn_ret.infer_slot_size.called) =>
              LET al == fn_ret.infer_alignment.value
                  slot == fn_ret.infer_slot_size.value
              IN  /\ slot % al = 0
                  /\ slot >= fn_args.size
                  /\ slot - fn_args.size < al

\* C3 witness: size 24 got alignment 32 and slot size 32.
C3_Witness ==
    /\ fn_args.size = 24
    /\ fn_ret.infer_alignment = Returned(32)
    /\ fn_ret.infer_slot_size = Returned(32)

\* The largest of 8, 16, 32, 64 that divides size, and 8 when none does.
LargestDividing(size) ==
    LET D == {a \in {8, 16, 32, 64} : size % a = 0}
    IN  IF D = {} THEN 8 ELSE CHOOSE a \in D : \A b \in D : b <= a

\* C4: both alignment inferences return, for a positive size, the largest of
\* 8, 16, 32, 64 that evenly divides it, and 8 when none does.
C4_LargestDividingAlignment ==
    fn_args.size > 0 =>
        /\ fn_ret.infer_alignment.called =>
              fn_ret.infer_alignment.value = LargestDividing(fn_args.size)
        /\ fn_ret.detect_alignment.called =>
              fn_ret.detect_alignment.value = LargestDividing(fn_args.size)

\* C9: classify_object is dangerous with a vtable, else dangerous for a size
\* of the dangerous set, else harmless for a size of the harmless set, else
\* spray_candidate, and never unknown.
C9_ClassifyRuleOrder ==
    fn_ret.classify_object.called =>
        LET c == fn_ret.classify_object.value
            size == fn_args.size
        IN  /\ c # "unknown"
            /\ fn_args.has_vtable => c = "dangerous"
            /\ (~fn_args.has_vtable /\ size \in {32, 48, 64, 80, 96, 112, 128}) =>
                  c = "dangerous"
            /\ (~fn_args.has_vtable /\ size \in {16, 24, 40, 56}) => c = "harmless"
            /\ (~fn_args.has_vtable
                /\ size \notin {32, 48, 64, 80, 96, 112, 128} \cup {16, 24, 40, 56}) =>
                  c = "spray_candidate"

\* C9 witness: classify(0x24, false) returned spray_candidate.
C9_Witness ==
    /\ fn_args = [size |-> 36, has_vtable |-> FALSE]
    /\ fn_ret.classify_object = Returned("spray_candidate")

-----------------------------------------------------------------------------
(* Properties of validation and ingestion (SpecValidation, SpecIngest). *)

\* C5: add_event of an event whose size is <= 0 raises a validation error and
\* changes neither the event log nor the bucket table.
C5_NonPositiveSizeRejected ==
    [][\A e \in AnySizeEventInputs :
          (e.size <= 0 /\ add_event(e)) =>
              /\ raised' = "ValidationError"
              /\ events' = events
              /\ buckets' = buckets]_vars

WellFormed(record) == "size" \in record.keys

\* The record is in the history and its size has a slot analysis.
Recorded(record) ==
    /\ SeqContains(allocation_history, record)
    /\ DictHas(slot_analysis, record.size)

\* C6: when the ingestion of a batch whose only malformed record stands between
\* well-formed records is over, the batch was not aborted and every well-formed
\* record of it, before and after the malformed one, is recorded.
C6_OnlyMalformedRejected ==
    (/\ ingest_pc \in {"done", "aborted"}
     /\ \E m \in DOMAIN batch :
            /\ \A i \in DOMAIN batch : WellFormed(batch[i]) <=> i # m
            /\ 1 < m /\ m < Len(batch)) =>
        /\ ingest_pc = "done"
        /\ \A i \in DOMAIN batch : WellFormed(batch[i]) => Recorded(batch[i])

-----------------------------------------------------------------------------
(* Properties of the reuse matcher (SpecReuse). *)

\* The pairs of every entry of a reuse-pattern table.
PairsOf(patterns) ==
    UNION {{patterns[n].value[m] : m \in DOMAIN patterns[n].value} : n \in DOMAIN patterns}

\* C7: every pair (i, j) of the reuse matcher joins a free event i to the first
\* later alloc event j of the same address: j > i and no alloc of that address
\* lies strictly between them (indices are 0-based, events[i + 1] is event i).
C7_ReuseMatchesFirstLaterAlloc ==
    reuse_ret.called =>
        \A p \in PairsOf(reuse_ret.value) :
            LET i == p[1]
                j == p[2]
            IN  /\ i \in 0..(Len(events) - 1) /\ j \in 0..(Len(events) - 1)
                /\ j > i
                /\ events[i + 1].event_type = "free"
                /\ events[j + 1].event_type = "alloc"
                /\ events[j + 1].address = events[i + 1].address
                /\ \A m \in (i + 1)..(j - 1) :
                       ~(/\ events[m + 1].event_type = "alloc"
                         /\ events[m + 1].address = events[i + 1].address)

\* C7 witness: free@2(A) with allocs of A @1 and @5 and none between is
\* matched as (2, 5).
C7_Witness ==
    /\ reuse_ret.called
    /\ Len(events) = 6
    /\ events[2].event_type = "alloc" /\ events[2].address = 1
    /\ events[3].event_type = "free" /\ events[3].address = 1
    /\ events[6].event_type = "alloc" /\ events[6].address = 1
    /\ \A m \in {4, 5} : ~(events[m].event_type = "alloc" /\ events[m].address = 1)
    /\ <<2, 5>> \in PairsOf(reuse_ret.value)
    /\ <<2, 1>> \notin PairsOf(reuse_ret.value)

-----------------------------------------------------------------------------
(* Properties of the snapshot round trip (SpecRoundTrip). *)

\* C8: load_analysis of an exported snapshot into a fresh analyzer reproduces
\* the bucket table and the event sequence of the exporting analyzer, and
\* exporting again yields the same document.
C8_RoundTrip ==
    /\ loaded.status # "fresh" =>
          /\ loaded.status = "loaded"
          /\ loaded.buckets = buckets
          /\ loaded.events = events
    /\ file2.called => file2.value = file.value

-----------------------------------------------------------------------------
(* Properties of the overwrite-chain builder (SpecChain). *)

RECURSIVE SumSizes(_)
\* The sum of the registered sizes of the members of a chain of names.
SumSizes(names) ==
    IF names = <<>> THEN 0
    ELSE DictGet(object_metadata, Head(names)).size + SumSizes(Tail(names))

\* C10: a returned chain starts with the anchor, its members' sizes add up to
\* at least overwrite_size, the anchor is not harmless and no member appended
\* after the anchor is harmless.
C10_ReturnedChainValid ==
    chain_pc = "returned_chain" =>
        /\ Len(chain) >= 1
        /\ chain[1] = chain_target.name
        /\ SumSizes(chain) >= chain_overwrite
        /\ chain_target.class_type # "harmless"
        /\ \A i \in 2..Len(chain) :
               DictGet(object_metadata, chain[i]).class_type # "harmless"

\* C10 witness: a chain of three or more members was returned from a registry
\* that also holds a harmless object.
C10_Witness ==
    /\ chain_pc = "returned_chain"
    /\ Len(chain) >= 3
    /\ \E i \in DOMAIN object_metadata : object_metadata[i].value.class_type = "harmless"


\* C11: _build_overwrite_chain terminates for every registry of objects with
\* sizes >= 0 and every overwrite_size. The registry and overwrite_size are
\* fixed during a call and the pick depends on them and on current_size only,
\* so the loop terminates exactly when every iteration that appends a member
\* also increases current_size: an iteration that leaves current_size as it
\* was is repeated for ever.
C11_LoopTerminates ==
    [][(chain_pc = "loop" /\ chain_pc' = "loop") => current_size' > current_size]_vars

\* The registered objects other than the anchor of the call.
OthersThan(target) ==
    {object_metadata[i].value : i \in DOMAIN object_metadata} \ {target}

\* C12: with a registered non-harmless anchor of size 0x20, overwrite_size 0x40
\* and no other non-harmless object registered, _build_overwrite_chain returns
\* None.
C12_LoneAnchorReturnsNone ==
    (/\ chain_pc \in {"returned_chain", "returned_none"}
     /\ chain_target.size = 32
     /\ chain_target.class_type # "harmless"
     /\ chain_overwrite = 64
     /\ \A o \in OthersThan(chain_target) : o.class_type = "harmless")
        => chain_pc = "returned_none"

-----------------------------------------------------------------------------
(* Properties of the score (SpecScore). *)

\* score(object, scenario) in tenths, as the sum of its four factors.
ScoreTenths(obj, config) ==
    (IF obj.size = config.overwrite_size THEN 3
     ELSE IF obj.size < config.overwrite_size THEN 2 ELSE 0)
    + (IF Len(obj.dangerous_fields) < 3 THEN Len(obj.dangerous_fields) ELSE 3)
    + (IF obj.vtable_offset # None THEN 2 ELSE 0)
    + (IF obj.metadata_size <= config.offset THEN 2 ELSE 0)

\* C13: the score is the sum of the four factors in tenths (t tenths is the
\* float t / 10), it lies between 0 and 1.0, and an object with size equal to
\* overwrite_size, two dangerous fields, a vtable offset and metadata_size <=
\* offset scores exactly 0.9.
C13_ScoreIsSumOfTenths ==
    score_ret.called =>
        LET obj == score_args.obj
            config == score_args.config
        IN  /\ score_ret.value = FloatLiteral(ScoreTenths(obj, config), 10)
            /\ ~FloatLess(score_ret.value, FloatLiteral(0, 10))
            /\ ~FloatLess(FloatLiteral(10, 10), score_ret.value)
            /\ (/\ obj.size = config.overwrite_size
                /\ Len(obj.dangerous_fields) = 2
                /\ obj.vtable_offset # None
                /\ obj.metadata_size <= config.offset)
                   => score_ret.value = FloatLiteral(9, 10)

-----------------------------------------------------------------------------
(* Properties of the analysis (SpecBug). *)

\* The scenario of the analysis that returned.
Scenario == bug_history[Len(bug_history)]

\* The registered objects, and the place of a name in the registry.
Registered == {known_objects[i].value : i \in DOMAIN known_objects}

RegistrationIndex(nm) == CHOOSE i \in DOMAIN known_objects : known_objects[i].key = nm

\* An object qualifies as a candidate of a scenario.
Qualifies(obj, config) ==
    /\ obj.size <= config.overwrite_size
    /\ (config.offset + obj.size) % obj.alignment = 0
    /\ Len(obj.dangerous_fields) >= 1
    /\ ScoreTenths(obj, config) > 5

Candidates == bug_analysis.value.candidates

\* C14: the candidates are exactly the registered objects of size <=
\* overwrite_size, with offset + size a multiple of their alignment, at least
\* one dangerous field and a score above 0.5, each of them once.
C14_CandidatesExactlyQualifying ==
    bug_analysis.called =>
        /\ {Candidates[i] : i \in DOMAIN Candidates}
              = {obj \in Registered : Qualifies(obj, Scenario)}
        /\ \A i, j \in DOMAIN Candidates : i # j => Candidates[i] # Candidates[j]

\* C14 witness: of two registered objects that pass the other filters the one
\* with a score above 0.5 was returned and the one with a score of exactly 0.5
\* was not.
C14_Witness ==
    /\ bug_analysis.called
    /\ Len(Candidates) = 1
    /\ \E obj \in Registered :
           /\ obj.size <= Scenario.overwrite_size
           /\ (Scenario.offset + obj.size) % obj.alignment = 0
           /\ Len(obj.dangerous_fields) >= 1
           /\ ScoreTenths(obj, Scenario) = 5

\* C15: the candidates are in descending order of score(object, scenario),
\* objects of equal score in registration order.
C15_OrderedByComputedScore ==
    bug_analysis.called =>
        \A i, j \in DOMAIN Candidates :
            i < j =>
                \/ ScoreTenths(Candidates[i], Scenario) > ScoreTenths(Candidates[j], Scenario)
                \/ /\ ScoreTenths(Candidates[i], Scenario) = ScoreTenths(Candidates[j], Scenario)
                   /\ RegistrationIndex(Candidates[i].name) < RegistrationIndex(Candidates[j].name)

\* C16: with at least one candidate, overall_score is the score computed for
\* the first candidate, the highest score computed among the candidates.
C16_OverallIsTopScore ==
    (bug_analysis.called /\ Candidates # <<>>) =>
        /\ bug_analysis.value.exploitability.overall_score
              = _calculate_exploitability_score(Candidates[1], Scenario)
        /\ \A i \in DOMAIN Candidates :
               ~FloatLess(bug_analysis.value.exploitability.overall_score,
                          _calculate_exploitability_score(Candidates[i], Scenario))

\* What analyze_bug returns when nothing qualifies.
NothingFound ==
    [candidates |-> <<>>, sequences |-> <<>>,
     exploitability |-> [overall_score |-> FloatLiteral(0, 10),
                         factors |-> <<"No suitable target objects found">>,
                         recommendations |-> <<>>]]

\* C17: when no registered object qualifies, analyze_bug returns, for every
\* bug kind, empty candidates and sequences, overall_score 0 and the single
\* factor that no suitable target objects were found: it has this one outcome
\* before the call and this is what a call returned.
C17_NoCandidateIsNormal ==
    /\ ~bug_analysis.called =>
          \A config \in ConfigInputs :
              (\A obj \in Registered : ~Qualifies(obj, config))
                  => AnalyzeBugReturns(known_objects, config) = {NothingFound}
    /\ (bug_analysis.called /\ \A obj \in Registered : ~Qualifies(obj, Scenario))
          => bug_analysis.value = NothingFound

\* C17 witness: a registry of two objects, neither of which qualifies, was
\* analysed for a double free.
C17_Witness ==
    /\ bug_analysis.called
    /\ Len(known_objects) = 2
    /\ \A obj \in Registered : ~Qualifies(obj, Scenario)
    /\ Scenario.type = "double_free"
    /\ bug_analysis.value = NothingFound

\* A step allocates count objects of a kind and size, or frees count of a kind.
IsAllocate(step, object, count, size) ==
    step = [type |-> "allocate", object |-> object, count |-> count, size |-> size]

IsFree(step, object, count) ==
    step = [type |-> "free", object |-> object, count |-> count]

\* The steps follow the template of the bug kind for a candidate.
FollowsTemplate(steps, kind, candidate, config) ==
    IF kind = "use_after_free"
    THEN /\ Len(steps) = 4
         /\ IsAllocate(steps[1], candidate.name, 1, candidate.size)
         /\ \E R \in 10..20 : IsAllocate(steps[2], "array", R, candidate.size)
         /\ IsFree(steps[3], candidate.name, 1)
         /\ IsAllocate(steps[4], "array", 1, candidate.size)
    ELSE IF kind = "overflow"
    THEN /\ Len(steps) = 2
         /\ IsAllocate(steps[1], candidate.name, 1, candidate.size)
         /\ IsAllocate(steps[2], "array", 1, config.overwrite_size)
    ELSE IF kind = "double_free"
    THEN /\ Len(steps) = 4
         /\ IsAllocate(steps[1], candidate.name, 1, candidate.size)
         /\ IsFree(steps[2], candidate.name, 1)
         /\ IsAllocate(steps[3], "array", 1, candidate.size)
         /\ IsFree(steps[4], candidate.name, 1)
    ELSE TRUE

\* C18: there is one sequence per candidate, in the order of the candidates;
\* its steps follow the template of the bug kind, in which only the filler count
\* R in 10..20 of a use-after-free is open, and every free of the target comes
\* after an allocation of the target.
C18_SequencesFollowTemplate ==
    bug_analysis.called =>
        LET sequences == bug_analysis.value.sequences
        IN  /\ Len(sequences) = Len(Candidates)
            /\ \A i \in DOMAIN sequences :
                   /\ sequences[i].target = Candidates[i].name
                   /\ FollowsTemplate(sequences[i].steps, Scenario.type, Candidates[i], Scenario)
                   /\ \A k \in DOMAIN sequences[i].steps :
                          (/\ sequences[i].steps[k].type = "free"
                           /\ sequences[i].steps[k].object = Candidates[i].name)
                              => \E j \in 1..(k - 1) :
                                     /\ sequences[i].steps[j].type = "allocate"
                                     /\ sequences[i].steps[j].object = Candidates[i].name

\* C18 witness: a use-after-free analysis of two candidates drew the filler
\* counts 10 and 20.
C18_Witness ==
    /\ bug_analysis.called
    /\ Scenario.type = "use_after_free"
    /\ Len(bug_analysis.value.sequences) = 2
    /\ bug_analysis.value.sequences[1].steps[2].count = 10
    /\ bug_analysis.value.sequences[2].steps[2].count = 20
    /\ bug_analysis.value.sequences[1].steps[3].type = "free"

-----------------------------------------------------------------------------
(* Properties of the strategy generator (SpecTrigger, SpecAllocationSteps). *)

\* C19: the trigger follows from target_type: gc_trigger with a value in
\* 1000..3000 for ArrayBuffer and TypedArray, immediate without a value for
\* JSFunction and JSObject, timeout with a value in 500..2000 for every other
\* type; it is never custom.
C19_TriggerFixedByType ==
    gen_ret.trigger.called =>
        LET trigger == gen_ret.trigger.value
        IN  /\ gen_args.target_type \in {"ArrayBuffer", "TypedArray"} =>
                  trigger.type = "gc_trigger" /\ trigger.value \in 1000..3000
            /\ gen_args.target_type \in {"JSFunction", "JSObject"} =>
                  trigger.type = "immediate" /\ trigger.value = None
            /\ gen_args.target_type \notin {"ArrayBuffer", "TypedArray", "JSFunction", "JSObject"} =>
                  trigger.type = "timeout" /\ trigger.value \in 500..2000
            /\ trigger.type # "custom"
            /\ trigger.custom_code = None

\* C19 witness: a TypedArray strategy waits for a collection with the largest
\* value of the range.
C19_Witness ==
    /\ gen_ret.trigger.called
    /\ gen_args.target_type = "TypedArray"
    /\ gen_ret.trigger.value.type = "gc_trigger"
    /\ gen_ret.trigger.value.value = 3000

\* C20: the allocation steps are a filler of size target_size with a count in
\* 50..100, then, exactly when overwrite_size is given and exceeds target_size,
\* a filler of size overwrite_size - target_size with a count in 20..40, and
\* last one object of target_type and size target_size: 2 or 3 steps.
C20_AllocationStepsShape ==
    gen_ret.allocation_steps.called =>
        LET steps == gen_ret.allocation_steps.value
            excess == gen_args.overwrite_size # None
                      /\ gen_args.overwrite_size - gen_args.target_size > 0
        IN  /\ Len(steps) = IF excess THEN 3 ELSE 2
            /\ steps[1].object_type = "array"
            /\ steps[1].size = gen_args.target_size
            /\ steps[1].count \in 50..100
            /\ excess =>
                  /\ steps[2].object_type = "array"
                  /\ steps[2].size = gen_args.overwrite_size - gen_args.target_size
                  /\ steps[2].count \in 20..40
            /\ steps[Len(steps)].object_type = gen_args.target_type
            /\ steps[Len(steps)].count = 1
            /\ steps[Len(steps)].size = gen_args.target_size

\* C20 witness: target_size 16 with overwrite_size 48 yields three steps, the
\* second a filler of size 32.
C20_Witness ==
    /\ gen_ret.allocation_steps.called
    /\ gen_args.target_size = 16
    /\ gen_args.overwrite_size = 48
    /\ Len(gen_ret.allocation_steps.value) = 3
    /\ gen_ret.allocation_steps.value[2].size = 32
    /\ gen_ret.allocation_steps.value[3].object_type = gen_args.target_type

-----------------------------------------------------------------------------
(* Properties of the allocator analyzer's queries (SpecAllocator). *)

\* The distinct sizes that occur in the recorded events.
ObservedSizes(history) == {history[i].size : i \in DOMAIN history}

\* C21: detect_reuse_patterns returns, for every distinct size that occurs in
\* the recorded events, an entry whose reuse frequency is (events of that size
\* - distinct addresses among them) / (events of that size).
C21_EverySizeReported ==
    patterns_ret.called =>
        \A size \in ObservedSizes(allocation_history) :
            LET addresses == AddressesOfSize(allocation_history, size)
            IN  /\ DictHas(patterns_ret.value, size)
                /\ DictGet(patterns_ret.value, size).reuse_frequency
                       = TrueDiv(Len(addresses) - DistinctCount(addresses), Len(addresses))

\* C22: for a non-empty history infer_bucket_boundaries asks for and returns
\* at most min(10, number of distinct observed sizes) clusters, each boundary
\* being the (min, max) of the sizes of its cluster; an empty history yields no
\* boundaries.
C22_AtMostDistinctClusters ==
    infer_ret.called =>
        LET sizes == infer_ret.value.sizes
            observed == {sizes[i] : i \in DOMAIN sizes}
            most == IF 10 < Cardinality(observed) THEN 10 ELSE Cardinality(observed)
            boundaries == infer_ret.value.bucket_boundaries
        IN  IF sizes = <<>>
            THEN infer_ret.value.raised = "none" /\ boundaries = <<>>
            ELSE /\ infer_ret.value.n_clusters <= most
                 /\ infer_ret.value.raised = "none"
                 /\ Len(boundaries) <= most
                 /\ \A i \in DOMAIN boundaries :
                        /\ boundaries[i].value[1] \in observed
                        /\ boundaries[i].value[2] \in observed
                        /\ boundaries[i].value[1] <= boundaries[i].value[2]

-----------------------------------------------------------------------------
(* Properties of the spray-candidate query (SpecSpray). *)

\* The names of the registry, in its order.
RegistryNames(objs) == [i \in DOMAIN objs |-> objs[i].key]

\* Registering m put it in the registry objs as its name's latest metadata: a
\* new name goes last, a known name keeps its place and loses its old metadata.
RegisteredInto(objs, m, after) ==
    /\ RegistryNames(after) =
           IF \E i \in DOMAIN objs : objs[i].key = m.name
           THEN RegistryNames(objs) ELSE Append(RegistryNames(objs), m.name)
    /\ \A i \in DOMAIN after :
           after[i].value = IF after[i].key = m.name THEN m ELSE objs[i].value

\* The objects of the registry that match, in registry order.
RECURSIVE MatchingInOrder(_, _)
MatchingInOrder(objs, target_size) ==
    IF objs = <<>> THEN <<>>
    ELSE LET obj == Head(objs).value
             rest == MatchingInOrder(Tail(objs), target_size)
         IN  IF obj.size = target_size /\ obj.class_type = "spray_candidate"
             THEN <<obj>> \o rest ELSE rest

\* C23: get_spray_candidates(target_size) returns exactly the registered
\* objects of that size classified spray_candidate, in first-registration
\* order; a re-registered name counts with its latest metadata only.
C23_SprayCandidatesExact ==
    [][/\ object_metadata' # object_metadata =>
              \E m \in MetadataInputs : RegisteredInto(object_metadata, m, object_metadata')
       /\ spray_ret'.called =>
              /\ spray_ret'.value.candidates =
                     MatchingInOrder(object_metadata', spray_ret'.value.target_size)
              /\ \A i \in DOMAIN spray_ret'.value.candidates :
                     LET obj == spray_ret'.value.candidates[i]
                     IN  /\ obj.size = spray_ret'.value.target_size
                         /\ obj.class_type = "spray_candidate"
                         /\ DictGet(object_metadata', obj.name) = obj]_vars

\* A query answered with two candidates, B registered before A.
C23_Witness ==
    /\ spray_ret.called
    /\ Len(spray_ret.value.candidates) = 2
    /\ spray_ret.value.candidates[1].name = "B"

-----------------------------------------------------------------------------
(* Properties of the ledger's log and bucket table (SpecArrival, Spec). *)

\* C24: every add_event call appends exactly its event at the end of the log
\* and changes no earlier entry, whatever the timestamps; an event without a
\* bucket index leaves the bucket table unchanged.
C24_AppendsInArrivalOrder ==
    [][\E e \in ArrivalEventInputs :
           /\ events' = Append(events, e)
           /\ e.bucket_index = None => buckets' = buckets]_vars

\* C24 witness: an event stamped 2 created bucket 0, then an event stamped 1
\* without a bucket index arrived; the log holds them in that order.
C24_Witness ==
    /\ Len(events) = 2
    /\ events[1].timestamp = 2 /\ events[1].bucket_index = 0
    /\ events[2].timestamp = 1 /\ events[2].bucket_index = None
    /\ Len(buckets) = 1

\* The first event of the log that references bucket index k.
FirstEventOf(evs, k) ==
    evs[CHOOSE i \in DOMAIN evs :
            /\ evs[i].bucket_index = k
            /\ \A j \in 1..(i - 1) : evs[j].bucket_index # k]

\* The bucket keys are the bucket indexes the log references, and each bucket
\* has the size of its first event with the alignment and slot size inferred
\* from that size.
BucketsAsCreated(evs, bs) ==
    /\ {bs[i].key : i \in DOMAIN bs}
           = {evs[i].bucket_index : i \in DOMAIN evs} \ {None}
    /\ \A i \in DOMAIN bs :
           LET b == bs[i].value
               first == FirstEventOf(evs, bs[i].key)
           IN  /\ b.size = first.size
               /\ b.alignment = _infer_alignment(first.size)
               /\ b.slot_size = _infer_slot_size(first.size)
               /\ b.slot_size >= b.size
               /\ b.slot_size % b.alignment = 0

\* C25: across add_event calls the set of bucket keys only grows, a bucket is
\* created by the first event that references its index, and its size,
\* alignment and slot_size stay those inferred from that event (so slot_size >=
\* size and slot_size mod alignment = 0), whatever sizes later events carry.
C25_BucketsFixedAtCreation ==
    [][/\ \A i \in DOMAIN buckets :
              /\ DictHas(buckets', buckets[i].key)
              /\ DictGet(buckets', buckets[i].key).size = buckets[i].value.size
              /\ DictGet(buckets', buckets[i].key).alignment = buckets[i].value.alignment
              /\ DictGet(buckets', buckets[i].key).slot_size = buckets[i].value.slot_size
       /\ BucketsAsCreated(events', buckets')]_vars

\* C25 witness: bucket 0 was created by an event of size 16 and then received
\* an event of size 24; it still has size 16, alignment 16, slot size 16.
C25_Witness ==
    /\ Len(events) = 2
    /\ events[1].bucket_index = 0 /\ events[1].size = 16
    /\ events[2].bucket_index = 0 /\ events[2].size = 24
    /\ DictGet(buckets, 0).size = 16
    /\ DictGet(buckets, 0).alignment = 16
    /\ DictGet(buckets, 0).slot_size = 16

\* C26: an alloc event for an address already in its bucket's used set, and a
\* free event for an address not in its bucket's used set, leave the bucket's
\* free and used lists unchanged; the event is still appended to the log.
C26_RedundantEventIsNoOp ==
    [][Len(events') = Len(events) + 1 =>
        LET e == events'[Len(events')]
            k == e.bucket_index
            used == SeqContains(UsedOf(buckets, k), e.address)
        IN  (k # None /\ ((e.event_type = "alloc" /\ used) \/ (e.event_type = "free" /\ ~used))) =>
              /\ UsedOf(buckets', k) = UsedOf(buckets, k)
              /\ FreeOf(buckets', k) = FreeOf(buckets, k)
              /\ events' = Append(events, e)]_vars

\* C26 witness: address 1 of bucket 0 was allocated and freed twice; the
\* second free changed nothing and all three events are in the log.
C26_Witness ==
    /\ Len(events) = 3
    /\ \A i \in 1..3 : events[i].bucket_index = 0 /\ events[i].address = 1
    /\ events[1].event_type = "alloc"
    /\ events[2].event_type = "free"
    /\ events[3].event_type = "free"
    /\ UsedOf(buckets, 0) = <<>>
    /\ FreeOf(buckets, 0) = <<1>>

-----------------------------------------------------------------------------
(* Further properties of the overwrite chain (SpecChain). *)

\* C27: a chain returned for an anchor smaller than overwrite_size adds up to
\* overwrite_size exactly: a member is appended only while the running total
\* stays <= overwrite_size, so a returned chain overshoots the budget only as
\* the lone anchor that reaches it by itself.
C27_ChainSumExact ==
    /\ (chain_pc # "idle" /\ Len(chain) >= 2) => current_size <= chain_overwrite
    /\ chain_pc = "returned_chain" =>
           /\ current_size = SumSizes(chain)
           /\ IF chain_target.size < chain_overwrite
              THEN SumSizes(chain) = chain_overwrite
              ELSE chain = <<chain_target.name>>

\* C27 witness: the anchor of size 16 was extended by a member of size 48 and
\* the chain was returned for overwrite_size 64.
C27_Witness ==
    /\ chain_pc = "returned_chain"
    /\ chain_overwrite = 64
    /\ chain_target.size = 16
    /\ Len(chain) = 2
    /\ DictGet(object_metadata, chain[2]).size = 48

-----------------------------------------------------------------------------
(* Properties of the pairing of the reuse matcher (SpecMatcher). *)

\* The places (entry, position) of a reuse-pattern table whose pair starts at
\* the 0-based event index i.
PlacesOf(patterns, i) ==
    {<<n, m>> \in (DOMAIN patterns) \X (1..Len(events)) :
        m \in DOMAIN patterns[n].value /\ patterns[n].value[m][1] = i}

\* The 0-based index of the first alloc of the address of event i after it, or
\* -1 when there is none.
NextAllocOf(i) ==
    LET later == {j \in (i + 1)..(Len(events) - 1) :
                     /\ events[j + 1].event_type = "alloc"
                     /\ events[j + 1].address = events[i + 1].address}
    IN  IF later = {} THEN -1 ELSE CHOOSE j \in later : \A k \in later : j <= k

\* C28: the reuse matcher pairs on address alone and is not one-to-one: each
\* free event contributes at most one pair, filed under its own size whatever
\* the size or bucket index of the matched allocation, and every free event of
\* an address that precedes the next allocation of that address is paired with
\* that allocation.
C28_PairsOnAddressAlone ==
    reuse_ret.called =>
        /\ \A i \in 0..(Len(events) - 1) :
               /\ Cardinality(PlacesOf(reuse_ret.value, i)) <= 1
               /\ \A place \in PlacesOf(reuse_ret.value, i) :
                      reuse_ret.value[place[1]].key = events[i + 1].size
               /\ (events[i + 1].event_type = "free" /\ NextAllocOf(i) # -1) =>
                      <<i, NextAllocOf(i)>> \in PairsOf(reuse_ret.value)
        /\ \A p \in PairsOf(reuse_ret.value) :
               /\ p[1] \in 0..(Len(events) - 1)
               /\ events[p[1] + 1].event_type = "free"
               /\ p[2] = NextAllocOf(p[1])

\* C28 witness: two frees of address 1 (size 16, bucket 0) precede one alloc of
\* address 1 with size 24 in bucket 1; both are paired with it under size 16.
C28_Witness ==
    /\ reuse_ret.called
    /\ Len(events) = 3
    /\ \A i \in 1..3 : events[i].address = 1
    /\ \A i \in 1..2 : /\ events[i].event_type = "free" /\ events[i].size = 16
                       /\ events[i].bucket_index = 0
    /\ events[3].event_type = "alloc" /\ events[3].size = 24 /\ events[3].bucket_index = 1
    /\ DictGet(reuse_ret.value, 16) = <<(<<0, 2>>), (<<1, 2>>)>>

-----------------------------------------------------------------------------
(* Properties of whole strategies (SpecStrategy). *)

\* C29: every generated strategy has exactly two deallocation steps, the
\* filler batch ("array", 20..40 objects) first and the target (count 1)
\* second, and frees strictly fewer fillers than its bulk spray step (50..100
\* objects) allocated.
C29_FreesFewerThanSprayed ==
    gen_ret.deallocation_steps.called =>
        LET frees == gen_ret.deallocation_steps.value
            allocations == gen_ret.allocation_steps.value
        IN  /\ Len(frees) = 2
            /\ frees[1].object_type = "array"
            /\ frees[1].count >= 20 /\ frees[1].count <= 40
            /\ frees[2].object_type = gen_args.target_type
            /\ frees[2].count = 1
            /\ allocations[1].object_type = "array"
            /\ allocations[1].count >= 50 /\ allocations[1].count <= 100
            /\ frees[1].count < allocations[1].count

\* C29 witness: the strategy with the smallest spray (50) and the largest
\* filler release (40), generated with a secondary filler step.
C29_Witness ==
    /\ gen_ret.deallocation_steps.called
    /\ gen_ret.deallocation_steps.value[1].count = 40
    /\ gen_ret.allocation_steps.value[1].count = 50
    /\ Len(gen_ret.allocation_steps.value) = 3

=============================================================================
